---- MODULE Spec2Model ----
(***************************************************************************)
(* Verification model of jnb666/go3d: the scene graph (package scene),     *)
(* the mesh builder and the procedural shape cache (package mesh).         *)
(*                                                                         *)
(* float32 values are modelled bit-exactly for +, -, *, / with IEEE-754    *)
(* round-to-nearest-even on a 24 bit significand.  A value is <<m, e>>     *)
(* and denotes m * 2^e; the canonical form has m odd, or <<0, 0>> for 0.   *)
(* The inputs of the model keep every exponent far inside the normal range *)
(* of float32, so overflow, underflow and subnormals do not occur; the     *)
(* sign of zero is not represented (Go's == does not distinguish it).      *)
(***************************************************************************)
EXTENDS Integers, Sequences, FiniteSets, TLC

VARIABLES nodes, calls, visited, meshes, mgroups, batch, built, meshCache, hist,
          objData, view, cam, drv, materials

\* nodes, calls, visited: the scene graph, the calls made on a node, and the
\* result of a traversal.  meshes, mgroups: the Mesh and meshGroup objects
\* (a *Mesh or *meshGroup is an index into these sequences).  batch, built:
\* history of the calls on meshes[1] since the last Build or Clear, and of
\* the last Build.  meshCache: the package variable cache of the procedural
\* shapes, from a key to the *Mesh stored under it.  hist: history of the meshes on the heap (which
\* mesh an Invert copied) and of the calls of the shape generators.
\* objData: the OBJ loader reading a file into meshes[1].  view: a View with its
\* lights.  cam: an arc-ball camera.  drv: the loader example's Model object
\* with its render thread, its user interface thread and its load goroutines.
appVars == <<objData, view, cam, drv, materials>>

meshVars == <<meshes, mgroups, batch, built, meshCache, hist, appVars>>

vars == <<nodes, calls, visited, meshes, mgroups, batch, built, meshCache, hist,
          objData, view, cam, drv, materials>>

(***************************************************************************)
(* Mesh objects.  A mesh is a record with the fields of the Go struct;     *)
(* a Go map is a function on the set of its keys; vdata holds one tuple of *)
(* vertexSize floats per vertex record; groups holds *meshGroup pointers.  *)
(***************************************************************************)
EmptyMap == [x \in {} |-> 0]

MapPut(f, k, v) == [x \in (DOMAIN f) \cup {k} |-> IF x = k THEN v ELSE f[x]]

newNormalCache(smooth) ==
    [vert2norm |-> EmptyMap, elem2vert |-> EmptyMap, smooth |-> smooth]

New ==
    [inverted |-> 0, vdata |-> <<>>, groups |-> <<>>, varray |-> <<0, 0>>,
     vertices |-> <<>>, normals |-> <<>>, texcoords |-> <<>>, tangents |-> <<>>,
     elements |-> <<>>, ncache |-> newNormalCache(FALSE), pointSize |-> 0,
     bumpMap |-> TRUE]

\* no face added since the last Build or Clear
\* total counts the AddFace, SetNormalSmoothing, Build and Clear calls so far
NoBatch == [start |-> New, faces |-> <<>>, pure |-> TRUE, total |-> 0]

\* no Invert and no call of a shape generator yet; parent[i] is the mesh that
\* Invert copied to make meshes[i], or 0; ops counts the calls on heap meshes;
\* panicKey is the key of the generator call that panicked in Clone;
\* uploaded maps a GPU vertex buffer to the number of vertex records
\* glu.ArrayBuffer copied into it
NoHist ==
    [parent |-> <<>>, runs |-> EmptyMap, returned |-> <<>>, panicked |-> FALSE,
     panicKey |-> <<0, 0>>, invalid |-> FALSE, ops |-> 0, uploaded |-> EmptyMap]

\* no OBJ file is being read, no view, camera or loader example exists
NoApp == objData = <<>> /\ view = <<>> /\ cam = <<>> /\ drv = <<>> /\ materials = <<>>

\* no Build yet
NoBuilt ==
    [valid |-> FALSE, start |-> New, faces |-> <<>>, pure |-> TRUE,
     pre |-> New, order |-> "asc", from |-> 0, group |-> 0, at |-> 0]

(***************************************************************************)
(* Bounds                                                                  *)
(***************************************************************************)
MaxOps == 3

MaxNodes == 4

(***************************************************************************)
(* float32 arithmetic                                                      *)
(***************************************************************************)
RECURSIVE BitLen(_)
BitLen(n) == IF n = 0 THEN 0 ELSE 1 + BitLen(n \div 2)

Abs(n) == IF n < 0 THEN -n ELSE n

Sgn(n) == IF n < 0 THEN -1 ELSE 1

RECURSIVE FNorm(_, _)
FNorm(m, e) ==
    IF m = 0 THEN <<0, 0>>
    ELSE IF m % 2 = 0 THEN FNorm(m \div 2, e + 1)
    ELSE <<m, e>>

\* round the non-negative integer n (times 2^e) to 24 significant bits,
\* ties to even
Round24(n, e) ==
    LET b == BitLen(n) IN
    IF b <= 24 THEN FNorm(n, e)
    ELSE LET k    == b - 24
             q    == n \div (2^k)
             r    == n % (2^k)
             half == 2^(k - 1)
             up   == r > half \/ (r = half /\ q % 2 = 1)
         IN  FNorm(IF up THEN q + 1 ELSE q, e + k)

\* as Round24, for the value (n + f) * 2^e where 0 < f < 1 iff sticky
FRound(sgn, n, e, sticky) ==
    LET r == IF sticky THEN Round24(2 * n + 1, e - 1) ELSE Round24(n, e)
    IN  <<sgn * r[1], r[2]>>

FNeg(a) == <<-a[1], a[2]>>

FAdd(a, b) ==
    IF a[1] = 0 THEN b
    ELSE IF b[1] = 0 THEN a
    ELSE
      LET x  == IF a[2] >= b[2] THEN a ELSE b      \* larger exponent
          y  == IF a[2] >= b[2] THEN b ELSE a
          d  == x[2] - y[2]
          bx == BitLen(Abs(x[1]))
      IN
      IF bx + d <= 29
      THEN LET s == x[1] * (2^d) + y[1]
           IN  FRound(Sgn(s), Abs(s), y[2], FALSE)
      ELSE \* y lies far below the leading bit of x: keep 28 bits of x
           \* and fold the bits of y shifted out into the sticky bit
           LET up  == 28 - bx
               xm  == Abs(x[1]) * (2^up)
               ex  == x[2] - up
               t   == d + bx - 28
               ym  == IF t >= 24 THEN 0 ELSE Abs(y[1]) \div (2^t)
               st  == IF t >= 24 THEN TRUE ELSE Abs(y[1]) % (2^t) # 0
               same == Sgn(x[1]) = Sgn(y[1])
               s   == IF same THEN xm + ym
                      ELSE IF st THEN xm - ym - 1 ELSE xm - ym
           IN  FRound(Sgn(x[1]), s, ex, st)

FSub(a, b) == FAdd(a, FNeg(b))

FMul(a, b) ==
    IF a[1] = 0 \/ b[1] = 0 THEN <<0, 0>>
    ELSE IF a = <<1, 0>> THEN b
    ELSE IF b = <<1, 0>> THEN a
    ELSE
      LET sg  == Sgn(a[1]) * Sgn(b[1])
          ma  == Abs(a[1])
          mb  == Abs(b[1])
          e   == a[2] + b[2]
          ah  == ma \div 4096
          al  == ma % 4096
          bh  == mb \div 4096
          bl  == mb % 4096
          mid == ah * bl + al * bh
          lo0 == al * bl + (mid % 4096) * 4096
          lo  == lo0 % 16777216
          hi  == ah * bh + mid \div 4096 + lo0 \div 16777216
          t   == BitLen(hi) - 4
      IN
      IF t <= 0
      THEN FRound(sg, hi * 16777216 + lo, e, FALSE)
      ELSE FRound(sg, hi * (2^(24 - t)) + lo \div (2^t), e + t, lo % (2^t) # 0)

\* quotient bits by long division: <<q, r, k>> with q the quotient so far,
\* r the remainder and k the number of fraction bits produced
RECURSIVE DivBits(_, _, _, _)
DivBits(q, r, k, den) ==
    IF q >= 33554432 \/ (r = 0 /\ q > 0) THEN <<q, r, k>>
    ELSE IF 2 * r >= den THEN DivBits(2 * q + 1, 2 * r - den, k + 1, den)
    ELSE DivBits(2 * q, 2 * r, k + 1, den)

\* b is not zero
FDiv(a, b) ==
    IF a[1] = 0 THEN <<0, 0>>
    ELSE
      LET sg == Sgn(a[1]) * Sgn(b[1])
          ma == Abs(a[1])
          mb == Abs(b[1])
          d  == DivBits(ma \div mb, ma % mb, 0, mb)
      IN  FRound(sg, d[1], a[2] - b[2] - d[3], d[2] # 0)

FInt(n) == FNorm(n, 0)

\* square root bits by the digit recurrence: q is the root so far, r the
\* remainder, n the number of pairs of bits brought down so far; the first 13
\* pairs are those of the radicand x < 2^26, the later ones are zero
RECURSIVE SqrtBits(_, _, _, _)
SqrtBits(q, r, n, x) ==
    IF q >= 33554432 THEN <<q, r, n>>
    ELSE LET top == IF n < 13 THEN (x \div (4^(12 - n))) % 4 ELSE 0
             r2  == 4 * r + top
         IN  IF r2 >= 4 * q + 1
             THEN SqrtBits(2 * q + 1, r2 - (4 * q + 1), n + 1, x)
             ELSE SqrtBits(2 * q, r2, n + 1, x)

\* float32(math.Sqrt(float64(a))) for a >= 0
FSqrt(a) ==
    IF a[1] = 0 THEN <<0, 0>>
    ELSE LET odd == a[2] % 2 = 1
             m   == IF odd THEN 2 * a[1] ELSE a[1]
             e   == IF odd THEN a[2] - 1 ELSE a[2]
             d   == SqrtBits(0, 0, 0, m)
         IN  FRound(1, d[1], (e \div 2) - (d[3] - 13), d[2] # 0)

\* a < b
FLt(a, b) == FSub(a, b)[1] < 0

FAbs(a) == <<Abs(a[1]), a[2]>>

F0 == <<0, 0>>

F1 == <<1, 0>>

(***************************************************************************)
(* mgl32 matrices as used by package scene: column major, entry (row r,    *)
(* column c) at position 4c + r + 1                                        *)
(***************************************************************************)
At(m, r, c) == m[4 * c + r + 1]

Ident4 ==
    [i \in 1..16 |-> IF i \in {1, 6, 11, 16} THEN F1 ELSE F0]

Scale3D(sx, sy, sz) ==
    [i \in 1..16 |-> CASE i = 1  -> sx
                       [] i = 6  -> sy
                       [] i = 11 -> sz
                       [] i = 16 -> F1
                       [] OTHER  -> F0]

Translate3D(tx, ty, tz) ==
    [i \in 1..16 |-> CASE i \in {1, 6, 11, 16} -> F1
                       [] i = 13 -> tx
                       [] i = 14 -> ty
                       [] i = 15 -> tz
                       [] OTHER  -> F0]

Mul4(a, b) ==
    [i \in 1..16 |->
        LET r == (i - 1) % 4
            c == (i - 1) \div 4
        IN  FAdd(FAdd(FAdd(FMul(At(a, r, 0), At(b, 0, c)),
                           FMul(At(a, r, 1), At(b, 1, c))),
                      FMul(At(a, r, 2), At(b, 2, c))),
                 FMul(At(a, r, 3), At(b, 3, c)))]

vmul(a, b) == <<FMul(a[1], b[1]), FMul(a[2], b[2]), FMul(a[3], b[3])>>

NewTransform(m) == [Mat4 |-> m, Scale |-> <<F1, F1, F1>>]

(***************************************************************************)
(* Scene nodes (package scene).  nodes is the heap of Group and Item       *)
(* objects; a node that is not allocated yet has kind "none".  Items of    *)
(* the model carry no attached light (Illuminate is never called), and     *)
(* rotations are not modelled.                                             *)
(***************************************************************************)
NodeIds == 1..MaxNodes

NoNode == [kind |-> "none", T |-> NewTransform(Ident4), objects |-> <<>>,
           enabled |-> FALSE]

NewGroup == [kind |-> "Group", T |-> NewTransform(Ident4), objects |-> <<>>,
             enabled |-> TRUE]

NewItem == [kind |-> "Item", T |-> NewTransform(Ident4), objects |-> <<>>,
            enabled |-> TRUE]

\* arguments of the Scale and Translate calls of the model
ScaleVals == {FInt(2), FInt(3), FInt(7), <<1, -1>>, FInt(-2)}

ScaleArgs == {<<s, s, s>> : s \in ScaleVals} \cup {<<FInt(2), FInt(3), FInt(7)>>}

TransArgs == {<<FInt(1), F0, F0>>, <<FInt(3), FInt(-1), FInt(1)>>,
              <<F0, FInt(3), FInt(7)>>}

GroupScale(n, s) ==
    /\ nodes[n].kind = "Group"
    /\ Len(calls) < MaxOps
    /\ nodes' = [nodes EXCEPT ![n].T =
                    [Mat4  |-> Mul4(@.Mat4, Scale3D(s[1], s[2], s[3])),
                     Scale |-> vmul(@.Scale, s)]]
    /\ calls' = Append(calls, <<"Scale", s>>)
    /\ UNCHANGED <<visited, meshVars>>

GroupTranslateUnscaled(n, t) ==
    /\ nodes[n].kind = "Group"
    /\ Len(calls) < MaxOps
    /\ nodes' = [nodes EXCEPT ![n].T.Mat4 = Mul4(@, Translate3D(t[1], t[2], t[3]))]
    /\ calls' = Append(calls, <<"Translate", t>>)
    /\ UNCHANGED <<visited, meshVars>>

GroupTranslate(n, t) ==
    /\ nodes[n].kind = "Group"
    /\ Len(calls) < MaxOps
    /\ nodes' = [nodes EXCEPT ![n].T.Mat4 =
                    Mul4(@, Translate3D(FDiv(t[1], nodes[n].T.Scale[1]),
                                        FDiv(t[2], nodes[n].T.Scale[2]),
                                        FDiv(t[3], nodes[n].T.Scale[3])))]
    /\ calls' = Append(calls, <<"Translate", t>>)
    /\ UNCHANGED <<visited, meshVars>>

ItemScale(n, s) ==
    /\ nodes[n].kind = "Item"
    /\ Len(calls) < MaxOps
    /\ nodes' = [nodes EXCEPT ![n].T =
                    [Mat4  |-> Mul4(@.Mat4, Scale3D(s[1], s[2], s[3])),
                     Scale |-> vmul(@.Scale, s)]]
    /\ calls' = Append(calls, <<"Scale", s>>)
    /\ UNCHANGED <<visited, meshVars>>

ItemTranslateUnscaled(n, t) ==
    /\ nodes[n].kind = "Item"
    /\ Len(calls) < MaxOps
    /\ nodes' = [nodes EXCEPT ![n].T.Mat4 = Mul4(@, Translate3D(t[1], t[2], t[3]))]
    /\ calls' = Append(calls, <<"Translate", t>>)
    /\ UNCHANGED <<visited, meshVars>>

ItemTranslate(n, t) ==
    /\ nodes[n].kind = "Item"
    /\ Len(calls) < MaxOps
    /\ nodes' = [nodes EXCEPT ![n].T.Mat4 =
                    Mul4(@, Translate3D(FDiv(t[1], nodes[n].T.Scale[1]),
                                        FDiv(t[2], nodes[n].T.Scale[2]),
                                        FDiv(t[3], nodes[n].T.Scale[3])))]
    /\ calls' = Append(calls, <<"Translate", t>>)
    /\ UNCHANGED <<visited, meshVars>>

\* one node, a Group or an Item, with the identity transform
InitXform ==
    /\ \E nd \in {NewGroup, NewItem} :
          nodes = [n \in NodeIds |-> IF n = 1 THEN nd ELSE NoNode]
    /\ calls = <<>>
    /\ visited = [root |-> 0, calls |-> <<>>]
    /\ meshes = <<>>
    /\ mgroups = <<>>
    /\ batch = NoBatch
    /\ built = NoBuilt
    /\ meshCache = EmptyMap
    /\ hist = NoHist
    /\ NoApp

NextXform ==
    \/ \E s \in ScaleArgs : GroupScale(1, s)
    \/ \E t \in TransArgs : GroupTranslate(1, t)
    \/ \E s \in ScaleArgs : ItemScale(1, s)
    \/ \E t \in TransArgs : ItemTranslate(1, t)

SpecXform == InitXform /\ [][NextXform]_vars

\* the translation column of the local matrix of node n
TransCol(n) == <<nodes[n].T.Mat4[13], nodes[n].T.Mat4[14], nodes[n].T.Mat4[15]>>

\* the calls so far are Scale calls followed by one Translate
ScalesThenTranslate ==
    /\ Len(calls) >= 1
    /\ calls[Len(calls)][1] = "Translate"
    /\ \A i \in 1..(Len(calls) - 1) : calls[i][1] = "Scale"

\* |x - t| is at most one unit in the last place of t
WithinUlp(x, t) ==
    LET d  == FSub(x, t)
        eu == BitLen(Abs(t[1])) + t[2] - 24
    IN  d = F0 \/ (d[2] <= eu /\ Abs(d[1]) <= 2^(eu - d[2]))

IsPow2(x) == Abs(x[1]) = 1

\* C1 as stated: after Scale calls and then Translate(tx,ty,tz) from the
\* identity, the translation column of the local matrix is exactly
\* (tx,ty,tz).
C1_Exact ==
    ScalesThenTranslate => TransCol(1) = calls[Len(calls)][2]

\* C1 amended: the translation column equals (tx,ty,tz) up to float32
\* rounding: every component is within one unit in the last place of the
\* requested one, and is exactly the requested one where the cumulative
\* scale factor of that axis is a power of two.
C1_TranslateAfterScale ==
    ScalesThenTranslate =>
        \A i \in 1..3 :
            LET t == calls[Len(calls)][2][i]
                x == TransCol(1)[i]
            IN  /\ WithinUlp(x, t)
                /\ IsPow2(nodes[1].T.Scale[i]) => x = t

C1_Witness ==
    /\ ScalesThenTranslate
    /\ Len(calls) >= 3
    /\ nodes[1].T.Scale[1] = FInt(4)
    /\ TransCol(1) = <<FInt(3), FInt(-1), FInt(1)>>

(***************************************************************************)
(* Building and traversing a scene.  The model adds an object to a group   *)
(* right after the object is made, as in g.Add(NewItem(m)), so the scene   *)
(* is a forest; Do is started on a node that has no parent.  visited       *)
(* records the root and the calls of the visitor callback of the           *)
(* traversal (root 0: none yet).  A traversal does not change the scene,   *)
(* so a behaviour of the model ends with its traversal.                    *)
(***************************************************************************)
Allocated == {n \in NodeIds : nodes[n].kind # "none"}

Range(f) == {f[i] : i \in DOMAIN f}

HasParent(x) == \E g \in NodeIds : x \in Range(nodes[g].objects)

Parent(x) == CHOOSE g \in NodeIds : x \in Range(nodes[g].objects)

RECURSIVE InSubtree(_, _)
InSubtree(x, root) ==
    x = root \/ (HasParent(x) /\ InSubtree(Parent(x), root))

CreateGroup ==
    /\ visited.root = 0
    /\ \E n \in NodeIds :
          /\ nodes[n].kind = "none"
          /\ \A k \in 1..(n - 1) : nodes[k].kind # "none"
          /\ nodes' = [nodes EXCEPT ![n] = NewGroup]
    /\ UNCHANGED <<calls, visited, meshVars>>

CreateItem ==
    /\ visited.root = 0
    /\ \E n \in NodeIds :
          /\ nodes[n].kind = "none"
          /\ \A k \in 1..(n - 1) : nodes[k].kind # "none"
          /\ nodes' = [nodes EXCEPT ![n] = NewItem]
    /\ UNCHANGED <<calls, visited, meshVars>>

GroupAdd(g, obj) ==
    /\ visited.root = 0
    /\ nodes[g].kind = "Group"
    /\ obj \in Allocated
    /\ ~HasParent(obj)
    /\ ~InSubtree(g, obj)
    /\ \A k \in Allocated : k <= obj
    /\ nodes' = [nodes EXCEPT ![g].objects = Append(@, obj)]
    /\ UNCHANGED <<calls, visited, meshVars>>

GroupEnable(g, on) ==
    /\ visited.root = 0
    /\ nodes[g].kind = "Group"
    /\ nodes' = [nodes EXCEPT ![g].enabled = on]
    /\ UNCHANGED <<calls, visited, meshVars>>

ItemEnable(o, on) ==
    /\ visited.root = 0
    /\ nodes[o].kind = "Item"
    /\ nodes' = [nodes EXCEPT ![o].enabled = on]
    /\ UNCHANGED <<calls, visited, meshVars>>

\* the calls fn(item, transform) made by Do, in the order they are made
RECURSIVE GroupDoIgnoringEnabled(_, _), GroupDo(_, _), ItemDo(_, _), ObjectDo(_, _), ObjectsDo(_, _, _)
ItemDo(o, trans) ==
    IF ~nodes[o].enabled THEN <<>>
    ELSE << <<o, [Mat4  |-> Mul4(trans.Mat4, nodes[o].T.Mat4),
                  Scale |-> vmul(trans.Scale, nodes[o].T.Scale)]>> >>

GroupDoIgnoringEnabled(g, trans) ==
    LET newTrans == [Mat4  |-> Mul4(trans.Mat4, nodes[g].T.Mat4),
                     Scale |-> vmul(trans.Scale, nodes[g].T.Scale)]
    IN  ObjectsDo(nodes[g].objects, 1, newTrans)

GroupDo(g, trans) ==
    IF ~nodes[g].enabled THEN <<>>
    ELSE LET newTrans == [Mat4  |-> Mul4(trans.Mat4, nodes[g].T.Mat4),
                          Scale |-> vmul(trans.Scale, nodes[g].T.Scale)]
         IN  ObjectsDo(nodes[g].objects, 1, newTrans)

\* dynamic dispatch of obj.Do
ObjectDo(obj, trans) ==
    IF nodes[obj].kind = "Group" THEN GroupDo(obj, trans) ELSE ItemDo(obj, trans)

\* the loop over g.objects, from position i
ObjectsDo(objs, i, trans) ==
    IF i > Len(objs) THEN <<>>
    ELSE ObjectDo(objs[i], trans) \o ObjectsDo(objs, i + 1, trans)

Traverse(root) ==
    /\ root \in Allocated
    /\ ~HasParent(root)
    /\ visited.root = 0
    /\ visited' = [root |-> root, calls |-> ObjectDo(root, NewTransform(Ident4))]
    /\ UNCHANGED <<nodes, calls, meshVars>>

InitScene ==
    /\ nodes = [n \in NodeIds |-> NoNode]
    /\ calls = <<>>
    /\ visited = [root |-> 0, calls |-> <<>>]
    /\ meshes = <<>>
    /\ mgroups = <<>>
    /\ batch = NoBatch
    /\ built = NoBuilt
    /\ meshCache = EmptyMap
    /\ hist = NoHist
    /\ NoApp

\* the number of Clone calls on the scene
MaxClones == 1

\* the node a new object gets: the first one not allocated
FreeNode(N) ==
    CHOOSE n \in NodeIds : N[n].kind = "none" /\ \A k \in 1..(n - 1) : N[k].kind # "none"

\* the number of nodes of the subtree of o
RECURSIVE SubtreeSize(_, _)
RECURSIVE SubtreesSize(_, _, _)
SubtreeSize(N, o) == 1 + SubtreesSize(N, N[o].objects, 1)

SubtreesSize(N, objs, i) ==
    IF i > Len(objs) THEN 0
    ELSE SubtreeSize(N, objs[i]) + SubtreesSize(N, objs, i + 1)

\* obj.Clone(): the heap after the call and the node of the copy.  Item.Clone
\* copies the struct (item := *o); Group.Clone starts from NewGroup(), copies
\* the Transform and clones the objects in order
RECURSIVE CloneObject(_, _)
RECURSIVE cloneObjects(_, _, _, _)
RECURSIVE cloneNext(_, _, _, _)
CloneObject(N, o) ==
    IF N[o].kind = "Item"
    THEN [nodes |-> [N EXCEPT ![FreeNode(N)] = N[o]], id |-> FreeNode(N)]
    ELSE cloneObjects([N EXCEPT ![FreeNode(N)] = [NewGroup EXCEPT !.T = N[o].T]],
                      FreeNode(N), N[o].objects, 1)

\* the loop of Group.Clone over g.objects from position i; newg is the copy
cloneObjects(N, newg, objs, i) ==
    IF i > Len(objs) THEN [nodes |-> N, id |-> newg]
    ELSE cloneNext(CloneObject(N, objs[i]), newg, objs, i)

\* newg.objects[i] = c, the clone of objs[i]
cloneNext(c, newg, objs, i) ==
    cloneObjects([c.nodes EXCEPT ![newg].objects = Append(@, c.id)], newg, objs, i + 1)

\* c := obj.Clone() on the node obj of the scene; calls records the call and
\* the node of the copy
CallClone(obj) ==
    /\ visited.root = 0
    /\ obj \in Allocated
    /\ Len(calls) < MaxClones
    /\ SubtreeSize(nodes, obj) <= Cardinality(NodeIds \ Allocated)
    /\ nodes' = CloneObject(nodes, obj).nodes
    /\ calls' = Append(calls, <<"Clone", <<obj, FreeNode(nodes)>>>>)
    /\ UNCHANGED <<visited, meshVars>>

NextScene ==
    \/ CreateGroup
    \/ CreateItem
    \/ \E obj \in NodeIds : CallClone(obj)
    \/ \E g, obj \in NodeIds : GroupAdd(g, obj)
    \/ \E g \in NodeIds, on \in BOOLEAN : GroupEnable(g, on)
    \/ \E o \in NodeIds, on \in BOOLEAN : ItemEnable(o, on)
    \/ \E root \in NodeIds : Traverse(root)

SpecScene == InitScene /\ [][NextScene]_vars

\* x and all its ancestors up to root are enabled
RECURSIVE Visible(_, _)
Visible(x, root) ==
    nodes[x].enabled /\ (x = root \/ Visible(Parent(x), root))

\* the items a traversal from root has to show
Shown(root) ==
    {x \in NodeIds : nodes[x].kind = "Item" /\ InSubtree(x, root) /\ Visible(x, root)}

Index(seq, x) == CHOOSE i \in DOMAIN seq : seq[i] = x

\* the positions in the child lists on the way from root down to x
RECURSIVE PathTo(_, _)
PathTo(x, root) ==
    IF x = root THEN <<>>
    ELSE Append(PathTo(Parent(x), root), Index(nodes[Parent(x)].objects, x))

\* p is before q in depth-first order
PathBefore(p, q) ==
    \E k \in 1..Len(p) :
        /\ k <= Len(q)
        /\ p[k] < q[k]
        /\ \A j \in 1..(k - 1) : p[j] = q[j]

TraversalCorrect(root, cs) ==
    /\ {cs[i][1] : i \in DOMAIN cs} = Shown(root)
    /\ Len(cs) = Cardinality(Shown(root))
    /\ \A i, j \in DOMAIN cs :
          i < j => PathBefore(PathTo(cs[i][1], root), PathTo(cs[j][1], root))

\* C2: a traversal from the root calls the visitor exactly once for every
\* enabled Item whose ancestor Groups are all enabled, for no other Item, and
\* in depth-first order following the insertion order of the children.
C2_Traversal ==
    visited.root # 0 => TraversalCorrect(visited.root, visited.calls)

\* a traversal that showed an item and skipped another one that is enabled
\* itself but sits in a disabled group
C2_Witness ==
    /\ visited.root # 0
    /\ Len(visited.calls) >= 1
    /\ TraversalCorrect(visited.root, visited.calls)
    /\ \E x \in NodeIds :
          /\ nodes[x].kind = "Item"
          /\ nodes[x].enabled
          /\ InSubtree(x, visited.root)
          /\ ~Visible(x, visited.root)

(***************************************************************************)
(* Vectors (mgl32.Vec2 and mgl32.Vec3) as used by package mesh             *)
(***************************************************************************)
V3Add(a, b) == <<FAdd(a[1], b[1]), FAdd(a[2], b[2]), FAdd(a[3], b[3])>>

V3Sub(a, b) == <<FSub(a[1], b[1]), FSub(a[2], b[2]), FSub(a[3], b[3])>>

V3Mul(a, c) == <<FMul(a[1], c), FMul(a[2], c), FMul(a[3], c)>>

Cross(a, b) ==
    <<FSub(FMul(a[2], b[3]), FMul(a[3], b[2])),
      FSub(FMul(a[3], b[1]), FMul(a[1], b[3])),
      FSub(FMul(a[1], b[2]), FMul(a[2], b[1]))>>

Len3(v) ==
    FSqrt(FAdd(FAdd(FMul(v[1], v[1]), FMul(v[2], v[2])), FMul(v[3], v[3])))

\* v is not the zero vector
Normalize(v) == V3Mul(v, FDiv(F1, Len3(v)))

(***************************************************************************)
(* The mesh builder (package mesh).  A mesh is a record with the fields of *)
(* the Go struct; vdata holds one sequence of vertexSize floats per vertex *)
(* record; a Go map is a function on the set of its keys.  The operators   *)
(* below take a mesh and return the mesh after the call.                   *)
(***************************************************************************)
vertexSize == 11

epsilon == <<8796093, -43>>

\* a Clear that also wipes the built output
ClearAll(m) ==
    [m EXCEPT !.vdata = <<>>, !.groups = <<>>,
              !.vertices = <<>>, !.normals = <<>>, !.texcoords = <<>>,
              !.tangents = <<>>, !.elements = <<>>,
              !.ncache = newNormalCache(TRUE)]

Clear(m) ==
    [m EXCEPT !.vertices = <<>>, !.normals = <<>>, !.texcoords = <<>>,
              !.tangents = <<>>, !.elements = <<>>,
              !.ncache = newNormalCache(TRUE)]

AddVertex(m, v) == [m EXCEPT !.vertices = Append(@, v)]

AddNormal(m, n) == [m EXCEPT !.normals = Append(@, n)]

AddTexCoord(m, t) == [m EXCEPT !.texcoords = Append(@, t)]

\* n is not 0 (the code panics)
vertex(m, n) ==
    IF n > 0 THEN m.vertices[n] ELSE m.vertices[Len(m.vertices) + n + 1]

texcoord(m, n) ==
    IF n > 0 THEN m.texcoords[n]
    ELSE IF n < 0 THEN m.texcoords[Len(m.texcoords) + n + 1]
    ELSE <<F0, F0>>

\* n is not 0 (the code panics)
normal(m, n) ==
    IF n > 0 THEN m.normals[n] ELSE m.normals[Len(m.normals) + n + 1]

getTangent(vtx, tex) ==
    LET dy1 == FSub(tex[2][2], tex[1][2])
        dy2 == FSub(tex[3][2], tex[1][2])
        f   == FSub(FMul(FSub(tex[2][1], tex[1][1]), dy2),
                    FMul(FSub(tex[3][1], tex[1][1]), dy1))
    IN  IF FLt(FAbs(dy1), epsilon) \/ FLt(FAbs(dy2), epsilon) \/ FLt(FAbs(f), epsilon)
        THEN [ok |-> FALSE, tangent |-> <<F0, F0, F0>>]
        ELSE LET edge1 == V3Sub(vtx[2], vtx[1])
                 edge2 == V3Sub(vtx[3], vtx[1])
             IN  [ok |-> TRUE,
                  tangent |-> Normalize(V3Sub(V3Mul(edge1, FDiv(dy2, f)),
                                              V3Mul(edge2, FDiv(dy1, f))))]

RECURSIVE addElements(_, _, _)
addElements(m, ntangent, elems) ==
    IF elems = <<>> THEN m
    ELSE addElements(
            [m EXCEPT !.elements =
                Append(@, [Vert |-> Head(elems).Vert, Tex |-> Head(elems).Tex,
                           Norm |-> Head(elems).Norm, tang |-> ntangent])],
            ntangent, Tail(elems))

push(s, val) ==
    LET count == FAdd(s.count, F1)
        mean  == V3Add(s.oldM, V3Mul(V3Sub(val, s.oldM), FDiv(F1, count)))
    IN  [count |-> count, mean |-> mean, oldM |-> mean]

runningMean == [count |-> F0, mean |-> <<F0, F0, F0>>, oldM |-> <<F0, F0, F0>>]

\* the smooth branch of normalCache.add, from element i (counted from 0)
RECURSIVE addSmooth(_, _, _, _, _)
addSmooth(n, norm, base, elements, i) ==
    IF i >= Len(elements) THEN n
    ELSE LET vert == elements[i + 1].Vert
             old  == IF vert \in DOMAIN n.vert2norm THEN n.vert2norm[vert]
                     ELSE runningMean
         IN  addSmooth([n EXCEPT !.vert2norm = MapPut(@, vert, push(old, norm)),
                                 !.elem2vert = MapPut(@, base + i, vert)],
                       norm, base, elements, i + 1)

ncacheAdd(m, norm, base, elements) ==
    IF m.ncache.smooth
    THEN [m EXCEPT !.ncache = addSmooth(@, norm, base, elements, 0)]
    ELSE LET m1 == AddNormal(m, norm)
             nr == Len(m1.normals)
         IN  [m1 EXCEPT !.elements =
                [i \in DOMAIN @ |->
                    IF i > base /\ i <= base + Len(elements)
                    THEN [@[i] EXCEPT !.Norm = nr] ELSE @[i]]]

\* the six elements of the two triangles of a quad
elquadReversed(el) == <<el[1], el[2], el[3], el[1], el[4], el[3]>>

elquad(el) == <<el[1], el[2], el[3], el[1], el[3], el[4]>>

\* Newell's sum over the edges of a quad, from corner i (counted from 0)
RECURSIVE newell(_, _, _)
newell(vtx, i, acc) ==
    IF i >= 4 THEN acc
    ELSE LET v  == vtx[i + 1]
             v1 == vtx[((i + 1) % 4) + 1]
         IN  newell(vtx, i + 1,
                    V3Add(acc, <<FMul(FSub(v[2], v1[2]), FAdd(v[3], v1[3])),
                                 FMul(FSub(v[3], v1[3]), FAdd(v[1], v1[1])),
                                 FMul(FSub(v[1], v1[1]), FAdd(v[2], v1[2]))>>))

\* the tangent step of AddFace: the mesh and the face's tangent index
addTangent(m, calcTangent, tg) ==
    IF calcTangent /\ tg.ok
    THEN [mesh |-> [m EXCEPT !.tangents = Append(@, tg.tangent)],
          ntangent |-> Len(m.tangents) + 1]
    ELSE [mesh |-> m, ntangent |-> 0]

\* the normal AddFace computes for a triangle or a quad
faceNormal(vtx) ==
    IF Len(vtx) = 3
    THEN Normalize(Cross(V3Sub(vtx[2], vtx[1]), V3Sub(vtx[3], vtx[1])))
    ELSE Normalize(newell(vtx, 0, <<F0, F0, F0>>))

\* the switch of AddFace on the number of elements, t from addTangent
addFaceElements(t, el, vtx, calcNormal, base) ==
    IF Len(el) = 3
    THEN IF calcNormal
         THEN ncacheAdd(addElements(t.mesh, t.ntangent, el), faceNormal(vtx),
                        base, el)
         ELSE addElements(t.mesh, t.ntangent, el)
    ELSE IF calcNormal
         THEN ncacheAdd(addElements(t.mesh, t.ntangent, elquad(el)),
                        faceNormal(vtx), base, elquad(el))
         ELSE addElements(t.mesh, t.ntangent, elquad(el))

\* el has 3 or 4 elements with vertex and texcoord indices in range
AddFace(m, el) ==
    LET calcNormal  == \E i \in DOMAIN el : el[i].Norm = 0
        calcTangent == \A i \in DOMAIN el : el[i].Tex # 0
        vtx  == [i \in DOMAIN el |-> vertex(m, el[i].Vert)]
        tex  == [i \in DOMAIN el |-> texcoord(m, el[i].Tex)]
    IN  addFaceElements(addTangent(m, calcTangent, getTangent(vtx, tex)),
                        el, vtx, calcNormal, Len(m.elements))

\* the keys of a map with integer keys, in ascending order
RECURSIVE Ascending(_)
Ascending(S) ==
    IF S = {} THEN <<>>
    ELSE LET lo == CHOOSE x \in S : \A y \in S : x <= y
         IN  <<lo>> \o Ascending(S \ {lo})

\* the keys of a map with integer keys, in descending order
RECURSIVE Descending(_)
Descending(S) ==
    IF S = {} THEN <<>>
    ELSE LET hi == CHOOSE x \in S : \A y \in S : x >= y
         IN  <<hi>> \o Descending(S \ {hi})

\* Go leaves the iteration order of a map unspecified: two of the orders
Orders == {"asc", "desc"}

KeysIn(f, order) ==
    IF order = "asc" THEN Ascending(DOMAIN f) ELSE Descending(DOMAIN f)

\* the loop of normalCache.build over the keys of elem2vert still to visit
RECURSIVE buildNormals(_, _)
buildNormals(m, keys) ==
    IF keys = <<>> THEN m
    ELSE LET i    == Head(keys)
             vid  == m.ncache.elem2vert[i]
             norm == m.ncache.vert2norm[vid].mean
             m1   == AddNormal(m, norm)
         IN  buildNormals([m1 EXCEPT !.elements[i + 1].Norm = Len(m1.normals)],
                          Tail(keys))

ncacheBuild(m, order) == buildNormals(m, KeysIn(m.ncache.elem2vert, order))

SetNormalSmoothing(m, on, order) ==
    [ncacheBuild(m, order) EXCEPT !.ncache = newNormalCache(on)]

getData(m, el) ==
    LET v  == vertex(m, el.Vert)
        vn == normal(m, el.Norm)
        vt == texcoord(m, el.Tex)
    IN  [i \in 1..vertexSize |->
            IF i <= 3 THEN v[i]
            ELSE IF i <= 6 THEN vn[i - 3]
            ELSE IF i <= 8 THEN vt[i - 6]
            ELSE IF el.tang > 0 THEN m.tangents[el.tang][i - 8]
            ELSE F0]

\* the loop of Build that never finds an element in its cache
RECURSIVE buildLoopNoCache(_, _, _, _, _)
buildLoopNoCache(m, i, cache, vdata, edata) ==
    IF i > Len(m.elements) THEN [vdata |-> vdata, edata |-> edata]
    ELSE buildLoopNoCache(m, i + 1, cache, Append(vdata, getData(m, m.elements[i])),
                          Append(edata, Len(vdata)))

\* the loop of Build taking a new record's index from the size of its cache
RECURSIVE buildLoopLocalIndex(_, _, _, _, _)
buildLoopLocalIndex(m, i, cache, vdata, edata) ==
    IF i > Len(m.elements) THEN [vdata |-> vdata, edata |-> edata]
    ELSE LET el == m.elements[i]
         IN  IF el \in DOMAIN cache
             THEN buildLoopLocalIndex(m, i + 1, cache, vdata, Append(edata, cache[el]))
             ELSE buildLoopLocalIndex(m, i + 1,
                                      MapPut(cache, el, Cardinality(DOMAIN cache)),
                                      Append(vdata, getData(m, el)),
                                      Append(edata, Cardinality(DOMAIN cache)))

\* the loop of Build from element i: cache maps an el2 to its record's index
RECURSIVE buildLoop(_, _, _, _, _)
buildLoop(m, i, cache, vdata, edata) ==
    IF i > Len(m.elements) THEN [vdata |-> vdata, edata |-> edata]
    ELSE LET el == m.elements[i]
         IN  IF el \in DOMAIN cache
             THEN buildLoop(m, i + 1, cache, vdata, Append(edata, cache[el]))
             ELSE buildLoop(m, i + 1, MapPut(cache, el, Len(vdata)),
                            Append(vdata, getData(m, el)),
                            Append(edata, Len(vdata)))

\* Build: the mesh after the call and the meshGroup it creates, which the
\* caller stores at index gid of mgroups
Build(m, materialName, order, gid) ==
    LET name == IF materialName = ""
                THEN (IF m.pointSize # 0 THEN "point" ELSE "diffuse")
                ELSE materialName
        m1   == [ncacheBuild(m, order) EXCEPT !.ncache = newNormalCache(TRUE)]
        d    == buildLoop(m1, 1, EmptyMap, m1.vdata, <<>>)
    IN  [mesh |-> [m1 EXCEPT !.vdata = d.vdata, !.groups = Append(@, gid),
                             !.elements = <<>>],
         grp  |-> [mtlName |-> name, edata |-> d.edata, mtl |-> "nil",
                   earray |-> 0]]

(***************************************************************************)
(* Calls on the mesh meshes[1].  The caller fills the pools with Points,   *)
(* TexCoords and one explicit normal, in that order, and then adds faces   *)
(* whose indices are in range.                                             *)
(***************************************************************************)
MaxCalls == 4

P3(x, y, z) == <<FInt(x), FInt(y), FInt(z)>>

Points == <<P3(0, 0, 0), P3(1, 0, 0), P3(0, 1, 0), P3(0, 0, 1), P3(1, 1, 0)>>

TexCoords == <<<<F0, F0>>, <<F1, F1>>, <<F0, F1>>>>

ExplicitNormal == P3(0, 0, 1)

El(v, t, n) == [Vert |-> v, Tex |-> t, Norm |-> n]

Faces ==
    { <<El(1, 0, 0), El(2, 0, 0), El(3, 0, 0)>>,
      <<El(1, 0, 0), El(4, 0, 0), El(2, 0, 0)>>,
      <<El(1, 0, 0), El(2, 0, 0), El(5, 0, 0), El(3, 0, 0)>>,
      <<El(1, 1, 1), El(2, 2, 1), El(3, 3, 1)>>,
      <<El(1, 1, 1), El(2, 1, 1), El(3, 3, 1)>>,
      <<El(1, 1, 1), El(5, 1, 1), El(3, 3, 1)>>,
      <<El(1, 3, 1), El(5, 2, 1), El(3, 1, 1)>> }

MaterialNames == {""}

PoolsFilled(m) ==
    /\ Len(m.vertices) = Len(Points)
    /\ Len(m.texcoords) = Len(TexCoords)
    /\ Len(m.normals) >= 1

CallAddVertex ==
    /\ Len(meshes[1].vertices) < Len(Points)
    /\ meshes' = [meshes EXCEPT
                    ![1] = AddVertex(@, Points[Len(meshes[1].vertices) + 1])]
    /\ UNCHANGED <<appVars, nodes, calls, visited, mgroups, batch, built, meshCache, hist>>

CallAddTexCoord ==
    /\ Len(meshes[1].vertices) = Len(Points)
    /\ Len(meshes[1].texcoords) < Len(TexCoords)
    /\ meshes' = [meshes EXCEPT
                    ![1] = AddTexCoord(@, TexCoords[Len(meshes[1].texcoords) + 1])]
    /\ UNCHANGED <<appVars, nodes, calls, visited, mgroups, batch, built, meshCache, hist>>

CallAddNormal ==
    /\ Len(meshes[1].texcoords) = Len(TexCoords)
    /\ Len(meshes[1].normals) = 0
    /\ meshes' = [meshes EXCEPT ![1] = AddNormal(@, ExplicitNormal)]
    /\ UNCHANGED <<appVars, nodes, calls, visited, mgroups, batch, built, meshCache, hist>>

CallAddFace(f) ==
    /\ PoolsFilled(meshes[1])
    /\ batch.total < MaxCalls
    /\ meshes' = [meshes EXCEPT ![1] = AddFace(@, f)]
    /\ batch' = IF batch.faces = <<>>
                THEN [start |-> meshes[1], faces |-> <<f>>, pure |-> TRUE,
                      total |-> batch.total + 1]
                ELSE [batch EXCEPT !.faces = Append(@, f), !.total = @ + 1]
    /\ UNCHANGED <<appVars, nodes, calls, visited, mgroups, built, meshCache, hist>>

CallSetNormalSmoothing(on, order) ==
    /\ batch.total < MaxCalls
    /\ meshes' = [meshes EXCEPT ![1] = SetNormalSmoothing(@, on, order)]
    /\ batch' = IF batch.faces = <<>> THEN [batch EXCEPT !.total = @ + 1]
                ELSE [batch EXCEPT !.pure = FALSE, !.total = @ + 1]
    /\ UNCHANGED <<appVars, nodes, calls, visited, mgroups, built, meshCache, hist>>

CallBuild(materialName, order) ==
    /\ batch.total < MaxCalls
    /\ LET b == Build(meshes[1], materialName, order, Len(mgroups) + 1)
       IN  /\ meshes' = [meshes EXCEPT ![1] = b.mesh]
           /\ mgroups' = Append(mgroups, b.grp)
    /\ built' = [valid |-> TRUE,
                 start |-> IF batch.faces = <<>> THEN meshes[1] ELSE batch.start,
                 faces |-> batch.faces, pure |-> batch.pure,
                 pre |-> meshes[1],
                 order |-> IF DOMAIN meshes[1].ncache.elem2vert = {} THEN "asc"
                           ELSE order,
                 from |-> Len(meshes[1].vdata), group |-> Len(mgroups) + 1,
                 at |-> batch.total + 1]
    /\ batch' = [NoBatch EXCEPT !.total = batch.total + 1]
    /\ UNCHANGED <<appVars, nodes, calls, visited, meshCache, hist>>

CallClear ==
    /\ batch.total < MaxCalls
    /\ meshes' = [meshes EXCEPT ![1] = Clear(@)]
    /\ batch' = [NoBatch EXCEPT !.total = batch.total + 1]
    /\ UNCHANGED <<appVars, nodes, calls, visited, mgroups, built, meshCache, hist>>

InitMesh ==
    /\ nodes = [n \in NodeIds |-> NoNode]
    /\ calls = <<>>
    /\ visited = [root |-> 0, calls |-> <<>>]
    /\ meshes = <<New>>
    /\ mgroups = <<>>
    /\ batch = NoBatch
    /\ built = NoBuilt
    /\ meshCache = EmptyMap
    /\ hist = NoHist
    /\ NoApp

NextMesh ==
    \/ CallAddVertex
    \/ CallAddTexCoord
    \/ CallAddNormal
    \/ \E f \in Faces : CallAddFace(f)
    \/ \E on \in BOOLEAN, order \in Orders : CallSetNormalSmoothing(on, order)
    \/ \E name \in MaterialNames, order \in Orders : CallBuild(name, order)
    \/ CallClear

SpecMesh == InitMesh /\ [][NextMesh]_vars

(***************************************************************************)
(* Claims about Build                                                      *)
(***************************************************************************)
\* the mesh after adding the faces fs[i], fs[i+1], ... in turn
RECURSIVE AddFacesFrom(_, _, _)
AddFacesFrom(m, fs, i) ==
    IF i > Len(fs) THEN m
    ELSE CHOOSE r \in {AddFacesFrom(next, fs, i + 1) : next \in {AddFace(m, fs[i])}} :
            TRUE

AddFaces(m, fs) == AddFacesFrom(m, fs, 1)

\* the records one Build appends to a mesh with pending faces
Added(pending, order) ==
    CHOOSE r \in {SubSeq(b.mesh.vdata, Len(pending.vdata) + 1, Len(b.mesh.vdata)) :
                    b \in {Build(pending, "", order, 1)}} : TRUE

\* the iteration orders of elem2vert that can differ for the pending faces
OrdersOf(pending) ==
    IF DOMAIN pending.ncache.elem2vert = {} THEN {"asc"} ELSE Orders

\* the pending elements of mesh m with their normals resolved
Resolved(m, order) == ncacheBuild(m, order)

\* the attribute tuples the pending elements of m refer to
AttributeTuples(m, order) ==
    LET r == Resolved(m, order)
    IN  {getData(r, r.elements[i]) : i \in DOMAIN r.elements}

\* the index tuples (vertex, texcoord, normal, tangent) of the pending elements
IndexTuples(m, order) == Range(Resolved(m, order).elements)

Reorderings(fs) ==
    {[i \in 1..Len(fs) |-> fs[p[i]]] : p \in Permutations(1..Len(fs))}

\* the records the last Build appended
LastAdded == SubSeq(meshes[1].vdata, built.from + 1, Len(meshes[1].vdata))

\* the last call was a Build of faces added with no other call in between
JustBuilt ==
    /\ built.valid
    /\ built.pure
    /\ built.faces # <<>>
    /\ batch.total = built.at

\* no normal of the faces fs added to m is a running mean
NoAveraging(m, fs) ==
    \/ ~m.ncache.smooth
    \/ \A k \in DOMAIN fs : \A i \in DOMAIN fs[k] : fs[k][i].Norm # 0

C5_AppendOnly ==
    [][ /\ Len(meshes'[1].vdata) >= Len(meshes[1].vdata)
        /\ SubSeq(meshes'[1].vdata, 1, Len(meshes[1].vdata)) = meshes[1].vdata
        /\ Len(meshes'[1].groups) >= Len(meshes[1].groups)
        /\ SubSeq(meshes'[1].groups, 1, Len(meshes[1].groups)) = meshes[1].groups
        /\ Len(mgroups') >= Len(mgroups)
        /\ \A g \in DOMAIN mgroups : mgroups'[g].edata = mgroups[g].edata
        /\ (\E order \in Orders : CallBuild("", order))
              => /\ Len(meshes'[1].groups) = Len(meshes[1].groups) + 1
                 /\ meshes'[1].groups[Len(meshes'[1].groups)] = Len(mgroups')
                 /\ Len(mgroups') = Len(mgroups) + 1
        /\ CallClear
              => /\ meshes'[1].vdata = meshes[1].vdata
                 /\ meshes'[1].groups = meshes[1].groups
                 /\ mgroups' = mgroups
                 /\ meshes'[1].vertices = <<>>
                 /\ meshes'[1].normals = <<>>
                 /\ meshes'[1].texcoords = <<>>
                 /\ meshes'[1].tangents = <<>>
      ]_vars

\* Clear was called on a mesh with built records and a built group
C5_Witness ==
    /\ Len(meshes) >= 1
    /\ Len(meshes[1].vdata) > 0
    /\ Len(meshes[1].groups) >= 1
    /\ mgroups[meshes[1].groups[1]].edata # <<>>
    /\ meshes[1].vertices = <<>>
    /\ meshes[1].normals = <<>>

Corner(e) == <<e.Vert, e.Tex>>

\* t and u list the corners of the same triangle with the same winding
SameTriangle(t, u) ==
    \/ t = u
    \/ t = <<u[2], u[3], u[1]>>
    \/ t = <<u[3], u[1], u[2]>>

\* mesh b is mesh a after AddFace of the quad f
QuadAdded(a, b, f) ==
    LET n   == Len(a.elements)
        new == [k \in 1..6 |-> b.elements[n + k]]
    IN  /\ Len(b.elements) = n + 6
        /\ SubSeq(b.elements, 1, n) = a.elements
        /\ SameTriangle(<<Corner(new[1]), Corner(new[2]), Corner(new[3])>>,
                        <<Corner(f[1]), Corner(f[2]), Corner(f[3])>>)
        /\ SameTriangle(<<Corner(new[4]), Corner(new[5]), Corner(new[6])>>,
                        <<Corner(f[3]), Corner(f[4]), Corner(f[1])>>)
        /\ ((\E i \in 1..4 : f[i].Norm = 0) /\ ~a.ncache.smooth)
              => /\ Len(b.normals) = Len(a.normals) + 1
                 /\ \A k \in 1..6 : new[k].Norm = Len(b.normals)

\* C6: AddFace of a quad (A,B,C,D) appends exactly six elements, the corners
\* of the triangles (A,B,C) and (C,D,A) in the quad's winding order, and
\* when the normal is computed with smoothing off it adds exactly one normal,
\* which all six elements reference.
C6_QuadSplit ==
    [][\A f \in Faces :
          (Len(f) = 4 /\ CallAddFace(f)) => QuadAdded(meshes[1], meshes'[1], f)]_vars

\* the last face added is a quad with a computed normal, added with smoothing off
C6_Witness ==
    /\ batch.faces # <<>>
    /\ batch.pure
    /\ ~batch.start.ncache.smooth
    /\ Len(batch.faces[Len(batch.faces)]) = 4
    /\ \E i \in 1..4 : batch.faces[Len(batch.faces)][i].Norm = 0
    /\ LET n == Len(meshes[1].elements)
       IN  \A k \in (n - 5)..n : meshes[1].elements[k].Norm = Len(meshes[1].normals)

\* the unit normal AddFace computes for face f of mesh m
FaceNormal(m, f) ==
    LET vtx == [i \in DOMAIN f |-> vertex(m, f[i].Vert)]
    IN  IF Len(f) = 3
        THEN Normalize(Cross(V3Sub(vtx[2], vtx[1]), V3Sub(vtx[3], vtx[1])))
        ELSE Normalize(newell(vtx, 0, <<F0, F0, F0>>))

ComputesNormal(f) == \E i \in DOMAIN f : f[i].Norm = 0

\* the faces of fs with a computed normal that reference vertex v
FacesAt(fs, v) ==
    {k \in DOMAIN fs : ComputesNormal(fs[k]) /\ \E i \in DOMAIN fs[k] : fs[k][i].Vert = v}

RECURSIVE SumNormals(_, _, _)
SumNormals(m, fs, ks) ==
    IF ks = {} THEN <<F0, F0, F0>>
    ELSE LET k == CHOOSE x \in ks : \A y \in ks : x <= y
         IN  V3Add(FaceNormal(m, fs[k]), SumNormals(m, fs, ks \ {k}))

\* the normalized mean of the face normals of the faces that reference v
SmoothNormal(m, fs, v) ==
    LET ks   == FacesAt(fs, v)
        mean == V3Mul(SumNormals(m, fs, ks), FDiv(F1, FInt(Cardinality(ks))))
    IN  Normalize(mean)

\* the number of elements AddFace appends for face f
ElementsOf(f) == IF Len(f) = 3 THEN 3 ELSE 6

RECURSIVE FirstElement(_, _)
FirstElement(fs, k) ==
    IF k = 1 THEN 1 ELSE FirstElement(fs, k - 1) + ElementsOf(fs[k - 1])

\* the positions in the element list of the elements of face k
ElementsAt(fs, k) == FirstElement(fs, k) .. (FirstElement(fs, k) + ElementsOf(fs[k]) - 1)

Tolerance == <<1, -20>>

Near(a, b) == \A i \in 1..3 : ~FLt(Tolerance, FAbs(FSub(a[i], b[i])))

\* C7: with smoothing on, after Build every element of a face with a
\* computed normal carries, for its vertex v, the normalized mean of the
\* face normals of the faces of the smoothing group that reference v; with
\* smoothing off every such face gets a new normal of its own that no other
\* face references.
C7_SmoothNormals ==
    JustBuilt =>
        LET fs == built.faces
            vd == meshes[1].vdata
            ed == mgroups[built.group].edata
            r  == Resolved(built.pre, built.order)
        IN  \A k \in DOMAIN fs : ComputesNormal(fs[k]) =>
               IF built.start.ncache.smooth
               THEN \A p \in ElementsAt(fs, k) :
                       Near(SubSeq(vd[ed[p] + 1], 4, 6),
                            SmoothNormal(built.start, fs, r.elements[p].Vert))
               ELSE /\ \A p \in ElementsAt(fs, k) :
                          /\ r.elements[p].Norm > Len(built.start.normals)
                          /\ r.elements[p].Norm = r.elements[FirstElement(fs, k)].Norm
                    /\ \A p \in DOMAIN r.elements :
                          r.elements[p].Norm = r.elements[FirstElement(fs, k)].Norm
                             => p \in ElementsAt(fs, k)

(***************************************************************************)
(* Meshes on the heap: Invert, SetMaterial, BumpMap, Build and Draw on any *)
(* mesh.  A Material is named by what it was loaded from or by the name    *)
(* its maker gave it ("nil" is the nil Material); a GPU buffer is a        *)
(* number, 0 for nil.                                                      *)
(***************************************************************************)
MaxMeshes == 3

MaxGroups == 2

MaxHeapOps == 4

MeshIds == 1..MaxMeshes

\* the program runs until it panics
Running == ~hist.panicked /\ ~hist.invalid /\ hist.ops < MaxHeapOps

BuiltinMaterials ==
    {"point", "diffuse", "earth", "emissive", "glass", "marble", "plastic",
     "rough", "skybox", "unshaded", "wood"}

\* no material file has been read: the name is one of the built in ones, or
\* the call fails and returns a nil Material
LoadMaterial(name, bumpMap) ==
    IF name \in BuiltinMaterials
    THEN [mtl |-> name \o (IF bumpMap THEN ":true" ELSE ":false"), err |-> FALSE]
    ELSE [mtl |-> "nil", err |-> TRUE]

\* the loop of loadMaterials over gids from position i; G is the heap of
\* meshGroups
RECURSIVE loadMaterials(_, _, _, _, _)
loadMaterials(G, gids, i, force, bumpMap) ==
    IF i > Len(gids) THEN [groups |-> G, err |-> FALSE]
    ELSE IF G[gids[i]].mtl = "nil" \/ force
    THEN LET r == LoadMaterial(G[gids[i]].mtlName, bumpMap)
         IN  IF r.err
             THEN [groups |-> [G EXCEPT ![gids[i]].mtl = r.mtl], err |-> TRUE]
             ELSE loadMaterials([G EXCEPT ![gids[i]].mtl = r.mtl], gids, i + 1,
                                force, bumpMap)
    ELSE loadMaterials(G, gids, i + 1, force, bumpMap)

BumpMap(G, m, on) == loadMaterials(G, m.groups, 1, TRUE, on).groups

SetMaterial(G, m, mtl) ==
    [g \in DOMAIN G |-> IF g \in Range(m.groups) THEN [G[g] EXCEPT !.mtl = mtl]
                        ELSE G[g]]

\* a number no GPU buffer has yet
NewBuffer(M, G) ==
    LET used == {0} \cup {M[i].varray[k] : i \in DOMAIN M, k \in 1..2}
                    \cup {G[g].earray : g \in DOMAIN G}
    IN  1 + (CHOOSE x \in used : \A y \in used : x >= y)

\* the loop of Draw over gids from position i; next is a number no buffer has
RECURSIVE drawGroups(_, _, _, _)
drawGroups(G, gids, i, next) ==
    IF i > Len(gids) THEN G
    ELSE IF G[gids[i]].earray = 0
    THEN drawGroups([G EXCEPT ![gids[i]].earray = next], gids, i + 1, next + 1)
    ELSE drawGroups(G, gids, i + 1, next)

\* Draw on the mesh M[i]: the meshes and the meshGroups after the call
Draw(M, G, i) ==
    LET l  == loadMaterials(G, M[i].groups, 1, FALSE, M[i].bumpMap)
        nb == NewBuffer(M, G)
        k  == M[i].inverted + 1
    IN  IF l.err THEN [meshes |-> M, groups |-> l.groups]
        ELSE [meshes |-> IF M[i].varray[k] = 0 THEN [M EXCEPT ![i].varray[k] = nb]
                         ELSE M,
              groups |-> drawGroups(l.groups, M[i].groups, 1, nb + 1)]

\* the copy of the vertex data with every normal multiplied by -1
negateNormals(vdata) ==
    [r \in DOMAIN vdata |->
        [j \in 1..vertexSize |->
            IF j \in 4..6 THEN FMul(vdata[r][j], FInt(-1)) ELSE vdata[r][j]]]

\* an Invert that always selects the reversed winding
InvertAlways(m) ==
    [m EXCEPT !.inverted = 1, !.vdata = negateNormals(m.vdata)]

\* newMesh := *m copies every field, so the new mesh holds the same
\* *meshGroup pointers in groups
Invert(m) ==
    [m EXCEPT !.inverted = 1 - m.inverted, !.vdata = negateNormals(m.vdata)]

\* the pools after the AddVertex, AddTexCoord and AddNormal calls
Pools ==
    [New EXCEPT !.vertices = Points, !.texcoords = TexCoords,
                !.normals = <<ExplicitNormal>>]

UserMaterials == {"red"}

CallInvert(i) ==
    /\ Running
    /\ i \in DOMAIN meshes
    /\ Len(meshes) < MaxMeshes
    /\ meshes' = Append(meshes, Invert(meshes[i]))
    /\ hist' = [hist EXCEPT !.parent = Append(@, i), !.ops = @ + 1]
    /\ UNCHANGED <<appVars, nodes, calls, visited, mgroups, batch, built, meshCache>>

CallSetMaterial(i, mtl) ==
    /\ Running
    /\ i \in DOMAIN meshes
    /\ mgroups' = SetMaterial(mgroups, meshes[i], mtl)
    /\ hist' = [hist EXCEPT !.ops = @ + 1]
    /\ UNCHANGED <<appVars, nodes, calls, visited, meshes, batch, built, meshCache>>

CallBumpMap(i, on) ==
    /\ Running
    /\ i \in DOMAIN meshes
    /\ meshes' = [meshes EXCEPT ![i].bumpMap = on]
    /\ mgroups' = BumpMap(mgroups, meshes[i], on)
    /\ hist' = [hist EXCEPT !.ops = @ + 1]
    /\ UNCHANGED <<appVars, nodes, calls, visited, batch, built, meshCache>>

\* Build("") on a mesh with no pending faces adds an empty group
CallBuildOn(i) ==
    /\ Running
    /\ i \in DOMAIN meshes
    /\ Len(meshes[i].groups) < MaxGroups
    /\ \E b \in {Build(meshes[i], "", "asc", Len(mgroups) + 1)} :
          /\ meshes' = [meshes EXCEPT ![i] = b.mesh]
          /\ mgroups' = Append(mgroups, b.grp)
    /\ hist' = [hist EXCEPT !.ops = @ + 1]
    /\ UNCHANGED <<appVars, nodes, calls, visited, batch, built, meshCache>>

\* the GPU vertex buffers after Draw on M[i] gave the meshes M1: a buffer
\* made by glu.ArrayBuffer(m.vdata, vertexSize) holds the records of vdata
upload(up, M, M1, i) ==
    LET k == M[i].inverted + 1
    IN  IF M1[i].varray[k] # M[i].varray[k]
        THEN MapPut(up, M1[i].varray[k], Len(M[i].vdata))
        ELSE up

\* the faces the caller adds to a mesh that was built before
LaterFaces ==
    { <<El(1, 0, 0), El(4, 0, 0), El(2, 0, 0)>>,
      <<El(1, 0, 0), El(2, 0, 0), El(5, 0, 0), El(3, 0, 0)>> }

CallAddFaceOn(i, f) ==
    /\ Running
    /\ i \in DOMAIN meshes
    /\ Len(meshes[i].groups) < MaxGroups
    /\ meshes[i].elements = <<>>
    /\ \E m \in {AddFace(meshes[i], f)} : meshes' = [meshes EXCEPT ![i] = m]
    /\ hist' = [hist EXCEPT !.ops = @ + 1]
    /\ UNCHANGED <<appVars, nodes, calls, visited, mgroups, batch, built, meshCache>>

CallDraw(i) ==
    /\ Running
    /\ i \in DOMAIN meshes
    /\ \E d \in {Draw(meshes, mgroups, i)} :
          /\ meshes' = d.meshes
          /\ mgroups' = d.groups
          /\ hist' = [hist EXCEPT !.ops = @ + 1,
                                  !.uploaded = upload(@, meshes, d.meshes, i)]
    /\ UNCHANGED <<appVars, nodes, calls, visited, batch, built, meshCache>>

\* one mesh, built from one face
InitInvert ==
    /\ nodes = [n \in NodeIds |-> NoNode]
    /\ calls = <<>>
    /\ visited = [root |-> 0, calls |-> <<>>]
    /\ \E f \in Faces : \E m \in {AddFace(Pools, f)} :
          \E b \in {Build(m, "", "asc", 1)} :
             /\ meshes = <<b.mesh>>
             /\ mgroups = <<b.grp>>
    /\ batch = NoBatch
    /\ built = NoBuilt
    /\ meshCache = EmptyMap
    /\ hist = [NoHist EXCEPT !.parent = <<0>>]
    /\ NoApp

NextInvert ==
    \/ \E i \in MeshIds : CallInvert(i)
    \/ \E i \in MeshIds, mtl \in UserMaterials : CallSetMaterial(i, mtl)
    \/ \E i \in MeshIds, on \in BOOLEAN : CallBumpMap(i, on)
    \/ \E i \in MeshIds : CallBuildOn(i)
    \/ \E i \in MeshIds, f \in LaterFaces : CallAddFaceOn(i, f)
    \/ \E i \in MeshIds : CallDraw(i)

SpecInvert == InitInvert /\ [][NextInvert]_vars

InvertedFrom(i) == hist.parent[i]

\* C8: for every built mesh m, m.Invert().Invert() has the winding selector
\* of m and a vertex buffer equal to m's, so every normal has its original
\* sign again.  The meshes two Invert calls made are compared as long as
\* no Build added a group to one of them since; a Build appends a new group.
C8_InvertTwice ==
    /\ \A i \in DOMAIN meshes :
          (/\ InvertedFrom(i) # 0
           /\ InvertedFrom(InvertedFrom(i)) # 0
           /\ meshes[i].groups = meshes[InvertedFrom(InvertedFrom(i))].groups) =>
             /\ meshes[i].inverted = meshes[InvertedFrom(InvertedFrom(i))].inverted
             /\ meshes[i].vdata = meshes[InvertedFrom(InvertedFrom(i))].vdata
    /\ \A i \in DOMAIN meshes :
          \A once \in {Invert(meshes[i])} : \A twice \in {Invert(once)} :
             /\ twice.inverted = meshes[i].inverted
             /\ twice.vdata = meshes[i].vdata

\* a mesh made by two Inverts, whose normals are not zero: the mesh in
\* between has the other winding and other vertex data
C8_Witness ==
    \E i \in DOMAIN meshes :
        /\ InvertedFrom(i) # 0
        /\ InvertedFrom(InvertedFrom(i)) # 0
        /\ meshes[i].vdata # <<>>
        /\ meshes[i].vdata = meshes[InvertedFrom(InvertedFrom(i))].vdata
        /\ meshes[i].vdata # meshes[InvertedFrom(i)].vdata
        /\ meshes[i].inverted = 0
        /\ meshes[InvertedFrom(i)].inverted = 1

\* what a caller can observe of the mesh M[j]: its vertex data, winding
\* selector and vertex buffers, its group list, and of every group the
\* material, the index list and the element buffer
Observable(M, G, j) ==
    [vdata |-> M[j].vdata, inverted |-> M[j].inverted, varray |-> M[j].varray,
     groups |-> M[j].groups,
     contents |-> [k \in DOMAIN M[j].groups |-> G[M[j].groups[k]]]]

\* one of the two meshes is the Invert of the other
InvertPair(i, j) == InvertedFrom(i) = j \/ InvertedFrom(j) = i

\* a call of SetMaterial, BumpMap, Build or Draw on the mesh i
OperationOn(i) ==
    \/ \E mtl \in UserMaterials : CallSetMaterial(i, mtl)
    \/ \E on \in BOOLEAN : CallBumpMap(i, on)
    \/ CallBuildOn(i)
    \/ CallDraw(i)

\* C9: the mesh returned by Invert shares no mutable state with the
\* original: no SetMaterial, BumpMap, Build or Draw on one of the two changes
\* anything observable of the other (materials, group list, index lists,
\* vertex data, GPU buffers).
C9_InvertSharesNothing ==
    [][\A i, j \in DOMAIN meshes :
          (i # j /\ InvertPair(i, j) /\ OperationOn(i)) =>
              Observable(meshes', mgroups', j) = Observable(meshes, mgroups, j)]_vars

(***************************************************************************)
(* The procedural shapes Point and Plane and their cache.  A key is        *)
(* <<typ, level>>; meshCache maps a key to the *Mesh stored under it.      *)
(***************************************************************************)
mPoint == 0

mPlane == 1

PointSizes == {0, 3}

\* a vector given in halves
H3(x, y, z) == <<FNorm(x, -1), FNorm(y, -1), FNorm(z, -1)>>

quadTexCoords ==
    <<<<FInt(0), FInt(0)>>, <<FInt(0), FInt(1)>>, <<FInt(1), FInt(1)>>,
      <<FInt(1), FInt(0)>>>>

\* the generation code of Point: the built mesh and its group, which the
\* caller stores at index gid of mgroups
pointMesh(pointSize, gid) ==
    CHOOSE b \in
        {Build(m, "", "asc", gid) : m \in
            {AddFace([New EXCEPT !.pointSize = pointSize,
                         !.vertices = <<H3(-1, -1, 0), H3(-1, 1, 0),
                                        H3(1, 1, 0), H3(1, -1, 0)>>,
                         !.texcoords = quadTexCoords,
                         !.normals = <<P3(0, 0, 1)>>],
                     <<El(4, 1, 1), El(3, 2, 1), El(2, 3, 1), El(1, 4, 1)>>)}} :
        TRUE

\* the generation code of Plane
planeMesh(gid) ==
    CHOOSE b \in
        {Build(m, "", "asc", gid) : m \in
            {AddFace([New EXCEPT !.vertices = <<H3(-1, 0, -1), H3(-1, 0, 1),
                                                H3(1, 0, 1), H3(1, 0, -1)>>,
                         !.texcoords = quadTexCoords,
                         !.normals = <<P3(0, 1, 0)>>],
                     <<El(1, 1, 1), El(2, 2, 1), El(3, 3, 1), El(4, 4, 1)>>)}} :
        TRUE

\* Clone of the mesh M[i]: grp.mtl.Clone() on a nil Material panics; else
\* the new mesh and its new meshGroups, which the caller appends to G.  A
\* copy of a material is named like the material.
Clone(M, G, i) ==
    [panic |-> \E k \in DOMAIN M[i].groups : G[M[i].groups[k]].mtl = "nil",
     mesh  |-> [New EXCEPT !.vdata = M[i].vdata, !.inverted = M[i].inverted,
                           !.varray = M[i].varray, !.pointSize = M[i].pointSize,
                           !.groups = IF M[i].groups = <<>> THEN <<>>
                                      ELSE [k \in DOMAIN M[i].groups |-> Len(G) + k]],
     grps  |-> IF M[i].groups = <<>> THEN <<>>
               ELSE [k \in DOMAIN M[i].groups |->
                       [mtlName |-> "", edata |-> G[M[i].groups[k]].edata,
                        mtl |-> G[M[i].groups[k]].mtl,
                        earray |-> G[M[i].groups[k]].earray]]]

\* the call with key k found a mesh in the cache: return m.Clone()
ReturnClone(k) ==
    \E c \in {Clone(meshes, mgroups, meshCache[k])} :
        IF c.panic
        THEN /\ hist' = [hist EXCEPT !.panicked = TRUE, !.panicKey = k,
                                      !.ops = @ + 1]
             /\ UNCHANGED <<meshes, mgroups, meshCache>>
        ELSE /\ meshes' = Append(meshes, c.mesh)
             /\ mgroups' = mgroups \o c.grps
             /\ hist' = [hist EXCEPT
                           !.parent = Append(@, 0),
                           !.returned = Append(@, [key |-> k, mesh |-> Len(meshes) + 1]),
                           !.ops = @ + 1]
             /\ UNCHANGED meshCache

\* the call with key k ran the generation code, which made b, and stores
\* the mesh under the key stored
ReturnNew(k, stored, b) ==
    /\ meshes' = Append(meshes, b.mesh)
    /\ mgroups' = Append(mgroups, b.grp)
    /\ meshCache' = MapPut(meshCache, stored, Len(meshes) + 1)
    /\ hist' = [hist EXCEPT
                  !.parent = Append(@, 0),
                  !.runs = MapPut(@, k, IF k \in DOMAIN @ THEN @[k] + 1 ELSE 1),
                  !.returned = Append(@, [key |-> k, mesh |-> Len(meshes) + 1]),
                  !.ops = @ + 1]

CallPoint(pointSize) ==
    /\ Running
    /\ Len(meshes) < MaxMeshes
    /\ IF <<mPoint, pointSize>> \in DOMAIN meshCache
       THEN ReturnClone(<<mPoint, pointSize>>)
       ELSE IF pointSize <= 0
       THEN /\ hist' = [hist EXCEPT !.invalid = TRUE, !.ops = @ + 1]
            /\ UNCHANGED <<meshes, mgroups, meshCache>>
       ELSE \E b \in {pointMesh(pointSize, Len(mgroups) + 1)} :
               ReturnNew(<<mPoint, pointSize>>, <<mPoint, 0>>, b)
    /\ UNCHANGED <<appVars, nodes, calls, visited, batch, built>>

CallPlane ==
    /\ Running
    /\ Len(meshes) < MaxMeshes
    /\ IF <<mPlane, 0>> \in DOMAIN meshCache
       THEN ReturnClone(<<mPlane, 0>>)
       ELSE \E b \in {planeMesh(Len(mgroups) + 1)} :
               ReturnNew(<<mPlane, 0>>, <<mPlane, 0>>, b)
    /\ UNCHANGED <<appVars, nodes, calls, visited, batch, built>>

InitGen ==
    /\ nodes = [n \in NodeIds |-> NoNode]
    /\ calls = <<>>
    /\ visited = [root |-> 0, calls |-> <<>>]
    /\ meshes = <<>>
    /\ mgroups = <<>>
    /\ batch = NoBatch
    /\ built = NoBuilt
    /\ meshCache = EmptyMap
    /\ hist = NoHist
    /\ NoApp

NextGen ==
    \/ \E pointSize \in PointSizes : CallPoint(pointSize)
    \/ CallPlane
    \/ \E i \in MeshIds : CallInvert(i)
    \/ \E i \in MeshIds, mtl \in UserMaterials : CallSetMaterial(i, mtl)
    \/ \E i \in MeshIds : CallDraw(i)

SpecGen == InitGen /\ [][NextGen]_vars

\* the parameter of the call is one the generator accepts
ValidKey(k) == k[1] # mPoint \/ k[2] > 0

EdataOf(i) == [k \in DOMAIN meshes[i].groups |-> mgroups[meshes[i].groups[k]].edata]

\* C10: for every generator and every valid parameter, a second call with
\* the same parameter does not panic, returns a mesh with the vertex buffer
\* and the group index lists of the first call, and is served from the cache:
\* the generation code runs at most once per shape and parameter.
C10_CacheIdentity ==
    /\ ~(hist.panicked /\ ValidKey(hist.panicKey))
    /\ \A k \in DOMAIN hist.runs : ValidKey(k) => hist.runs[k] <= 1
    /\ \A a, b \in DOMAIN hist.returned :
          (hist.returned[a].key = hist.returned[b].key
              /\ ValidKey(hist.returned[a].key)) =>
             /\ meshes[hist.returned[a].mesh].vdata = meshes[hist.returned[b].mesh].vdata
             /\ EdataOf(hist.returned[a].mesh) = EdataOf(hist.returned[b].mesh)

(***************************************************************************)
(* The OBJ loader (LoadObj).  A line of the stream is a string; the        *)
(* operators below work on its characters as the Go library calls do.      *)
(* strconv.ParseFloat is modelled for the syntax [+-]digits[.digits]: the  *)
(* lines of the model hold no exponent, no hexadecimal and no "inf" or     *)
(* "nan" field.                                                            *)
(***************************************************************************)
Char(str, i) == SubSeq(str, i, i)

IsSpace(c) == c \in {" ", "\t", "\r"}

IsDigit(c) == c \in {"0", "1", "2", "3", "4", "5", "6", "7", "8", "9"}

DigitVal(c) ==
    CASE c = "0" -> 0 [] c = "1" -> 1 [] c = "2" -> 2 [] c = "3" -> 3
      [] c = "4" -> 4 [] c = "5" -> 5 [] c = "6" -> 6 [] c = "7" -> 7
      [] c = "8" -> 8 [] c = "9" -> 9

\* strings.TrimSpace
RECURSIVE TrimSpace(_)
TrimSpace(str) ==
    IF str = "" THEN str
    ELSE IF IsSpace(Char(str, 1)) THEN TrimSpace(SubSeq(str, 2, Len(str)))
    ELSE IF IsSpace(Char(str, Len(str))) THEN TrimSpace(SubSeq(str, 1, Len(str) - 1))
    ELSE str

\* strings.Split(str, sep) for a separator of one character, from position
\* i, where cur is the piece read so far
RECURSIVE splitFrom(_, _, _, _)
splitFrom(str, sep, i, cur) ==
    IF i > Len(str) THEN <<cur>>
    ELSE IF Char(str, i) = sep THEN <<cur>> \o splitFrom(str, sep, i + 1, "")
    ELSE splitFrom(str, sep, i + 1, cur \o Char(str, i))

\* spaces.Split(line, -1) for the pattern [ \t\r]+, from position i of a
\* line that neither starts nor ends with a space
RECURSIVE splitSpaces(_, _, _)
splitSpaces(str, i, cur) ==
    IF i > Len(str) THEN <<cur>>
    ELSE IF IsSpace(Char(str, i))
    THEN IF IsSpace(Char(str, i + 1)) THEN splitSpaces(str, i + 1, cur)
         ELSE <<cur>> \o splitSpaces(str, i + 1, "")
    ELSE splitSpaces(str, i + 1, cur \o Char(str, i))

\* the value of a string of digits, or -1 if it has another character or
\* the value does not fit in 31 bits
RECURSIVE digits(_, _, _)
digits(str, i, acc) ==
    IF i > Len(str) THEN acc
    ELSE IF ~IsDigit(Char(str, i)) THEN -1
    ELSE IF acc > 214748364 \/ (acc = 214748364 /\ DigitVal(Char(str, i)) > 7)
    THEN -1
    ELSE digits(str, i + 1, 10 * acc + DigitVal(Char(str, i)))

\* the string without a leading sign
unsigned(fld) ==
    IF fld # "" /\ Char(fld, 1) \in {"+", "-"} THEN SubSeq(fld, 2, Len(fld))
    ELSE fld

\* parseint: strconv.ParseInt(fld, 10, 32); ok is FALSE where the code panics
parseint(fld) ==
    IF unsigned(fld) = "" \/ digits(unsigned(fld), 1, 0) < 0
    THEN [ok |-> FALSE, val |-> 0]
    ELSE [ok |-> TRUE,
          val |-> IF Char(fld, 1) = "-" THEN -digits(unsigned(fld), 1, 0)
                  ELSE digits(unsigned(fld), 1, 0)]

RECURSIVE pow10(_)
pow10(k) == IF k = 0 THEN 1 ELSE 10 * pow10(k - 1)

\* parsef32: strconv.ParseFloat(fld, 32), the nearest float32; ok is FALSE
\* where the code panics.  The fields of the model have at most 7 digits.
parsef32(fld) ==
    LET parts == splitFrom(unsigned(fld), ".", 1, "")
        int   == parts[1]
        frac  == IF Len(parts) = 2 THEN parts[2] ELSE ""
        all   == int \o frac
    IN  IF Len(parts) > 2 \/ all = "" \/ digits(all, 1, 0) < 0
        THEN [ok |-> FALSE, val |-> F0]
        ELSE [ok |-> TRUE,
              val |-> FDiv(FInt(IF Char(fld, 1) = "-" THEN -digits(all, 1, 0)
                                ELSE digits(all, 1, 0)),
                           FInt(pow10(Len(frac))))]

\* parse3fv: a Vec3 from up to three fields; ok is FALSE where the code
\* panics (a malformed field, or a fourth field indexing past the Vec3)
parse3fv(flds) ==
    IF Len(flds) > 3 \/ \E i \in DOMAIN flds : ~parsef32(flds[i]).ok
    THEN [ok |-> FALSE, val |-> <<F0, F0, F0>>]
    ELSE [ok |-> TRUE,
          val |-> [i \in 1..3 |-> IF i <= Len(flds) THEN parsef32(flds[i]).val
                                  ELSE F0]]

\* the inner loop of parseFaces for one field: the indices between the
\* slashes, 0 for an index the field does not reach; ok is FALSE where the
\* code panics (parseint fails, or a fourth index)
parseEl(str) ==
    LET parts == splitFrom(str, "/", 1, "")
    IN  IF Len(parts) > 3 \/ \E i \in DOMAIN parts : ~parseint(parts[i]).ok
        THEN [ok |-> FALSE, el |-> El(0, 0, 0)]
        ELSE [ok |-> TRUE,
              el |-> El(parseint(parts[1]).val,
                        IF Len(parts) >= 2 THEN parseint(parts[2]).val ELSE 0,
                        IF Len(parts) >= 3 THEN parseint(parts[3]).val ELSE 0)]

\* the tail of a sequence of fields (flds[1:])
Rest(flds) == SubSeq(flds, 2, Len(flds))

\* no file is open: the state of LoadObj before its first scan.  read is the
\* text scanned so far and atEnd says the scanner is exhausted; line, groups,
\* grpName and mtlName are the variables of LoadObj and objData; poolAt keeps,
\* for every face of groups, the sizes of the three pools when it was read;
\* err is the error LoadObj returns, and returned says whether it returned
\* its mesh (meshes[1]) or nil
NewObj ==
    [read |-> <<>>, atEnd |-> FALSE, line |-> "", groups |-> EmptyMap,
     poolAt |-> EmptyMap, grpName |-> "", mtlName |-> "",
     err |-> [set |-> FALSE, line |-> ""], done |-> FALSE, returned |-> FALSE]

\* parseVertexData
parseVertexData(m, typ, data) ==
    CASE typ = "v"  -> AddVertex(m, data)
      [] typ = "vt" -> AddTexCoord(m, <<data[1], FNeg(data[2])>>)
      [] typ = "vn" -> AddNormal(m, data)

\* the sizes of the pools of m
PoolSizes(m) ==
    [nv |-> Len(m.vertices), nt |-> Len(m.texcoords), nn |-> Len(m.normals)]

MapAppend(f, k, v) == MapPut(f, k, IF k \in DOMAIN f THEN Append(f[k], v) ELSE <<v>>)

\* a parseFaces that keeps, for each material, only the face read last
parseFacesLastOnly(o, m, flds) ==
    [o EXCEPT !.groups = MapPut(@, o.mtlName,
                                <<[i \in DOMAIN flds |-> parseEl(flds[i]).el]>>),
              !.poolAt = MapPut(@, o.mtlName, <<PoolSizes(m)>>)]

\* parseFaces, for fields that parse
parseFaces(o, m, flds) ==
    [o EXCEPT !.groups = MapAppend(@, o.mtlName,
                                   [i \in DOMAIN flds |-> parseEl(flds[i]).el]),
              !.poolAt = MapAppend(@, o.mtlName, PoolSizes(m))]

\* pool index n is one the accessors vertex, texcoord and normal index the
\* pool of size len with
InPool(n, len) == (n > 0 /\ n <= len) \/ (n < 0 /\ len + n >= 0)

\* AddFace(el) panics: a vertex index that is 0 or outside the pool, a
\* texcoord index outside the pool, or a number of elements other than 3, 4
facePanics(m, el) ==
    \/ \E i \in DOMAIN el : ~InPool(el[i].Vert, Len(m.vertices))
    \/ \E i \in DOMAIN el : el[i].Tex # 0 /\ ~InPool(el[i].Tex, Len(m.texcoords))
    \/ Len(el) \notin {3, 4}

\* getData panics for an element of b, the mesh after m.ncache.build(m): a
\* normal index outside the pool
normalPanics(b) == \E e \in Range(b.elements) : ~InPool(e.Norm, Len(b.normals))

\* Build panics in getData
buildPanics(m, order) == normalPanics(ncacheBuild(m, order))

\* the inner loop of build: AddFace for each face of one material
RECURSIVE addFaces(_, _, _)
addFaces(m, faces, i) ==
    IF i > Len(faces) THEN [panic |-> FALSE, mesh |-> m]
    ELSE IF facePanics(m, faces[i]) THEN [panic |-> TRUE, mesh |-> m]
    ELSE CHOOSE r \in {addFaces(m1, faces, i + 1) : m1 \in {AddFace(m, faces[i])}} :
            TRUE

\* the loop of build over the map groups, which ranges over the materials
\* in the order mats; orders[k] is the order in which the k-th Build ranges
\* over its normal cache
RECURSIVE buildGroups(_, _, _, _, _, _)
\* the Build of the k-th material, where a is the outcome of its AddFace calls
buildGroup(a, G, groups, mats, orders, k) ==
    IF a.panic \/ buildPanics(a.mesh, orders[k])
    THEN [panic |-> TRUE, mesh |-> a.mesh, grps |-> G]
    ELSE CHOOSE r \in {buildGroups(b.mesh, Append(G, b.grp), groups, mats,
                                   orders, k + 1) :
                       b \in {Build(a.mesh, mats[k], orders[k], Len(G) + 1)}} :
            TRUE

buildGroups(m, G, groups, mats, orders, k) ==
    IF k > Len(mats) THEN [panic |-> FALSE, mesh |-> m, grps |-> G]
    ELSE buildGroup(addFaces(m, groups[mats[k]], 1), G, groups, mats, orders, k)

\* the orders in which a range over a map with the keys S may run
Perms(S) ==
    {p \in [1..Cardinality(S) -> S] : \A i, j \in DOMAIN p : p[i] = p[j] => i = j}

\* objData.build(name): ok is FALSE where it panics
\* an end of build that leaves the faces in the map
buildEndKeepGroups(o, name, b) ==
    [ok |-> ~b.panic, obj |-> [o EXCEPT !.grpName = name], mesh |-> b.mesh,
     grps |-> b.grps]

\* the end of build after its loop with the outcome b: the new group name
\* and an empty map
buildEnd(o, name, b) ==
    [ok |-> ~b.panic,
     obj |-> [o EXCEPT !.grpName = name, !.groups = EmptyMap, !.poolAt = EmptyMap],
     mesh |-> b.mesh, grps |-> b.grps]

build(o, m, G, name, mats, orders) ==
    buildEnd(o, name, buildGroups(m, G, o.groups, mats, orders, 1))

\* one pass of the loop of LoadObj, for the trimmed line of fields flds;
\* ok is FALSE where it panics
scanLine(o, m, G, flds, mats, orders) ==
    CASE flds[1] \in {"v", "vt", "vn"} ->
            IF parse3fv(Rest(flds)).ok
            THEN [ok |-> TRUE, obj |-> o, grps |-> G,
                  mesh |-> parseVertexData(m, flds[1], parse3fv(Rest(flds)).val)]
            ELSE [ok |-> FALSE, obj |-> o, mesh |-> m, grps |-> G]
      [] flds[1] = "f" ->
            IF \A i \in 2..Len(flds) : parseEl(flds[i]).ok
            THEN [ok |-> TRUE, obj |-> parseFaces(o, m, Rest(flds)), mesh |-> m,
                  grps |-> G]
            ELSE [ok |-> FALSE, obj |-> o, mesh |-> m, grps |-> G]
      [] flds[1] = "g" ->
            IF Len(flds) > 1 THEN build(o, m, G, flds[2], mats, orders)
            ELSE [ok |-> TRUE, obj |-> o, mesh |-> m, grps |-> G]
      [] flds[1] = "s" ->
            IF Len(flds) > 1
            THEN [ok |-> TRUE, obj |-> o, grps |-> G,
                  mesh |-> SetNormalSmoothing(m, flds[2] # "off", orders[1])]
            ELSE [ok |-> FALSE, obj |-> o, mesh |-> m, grps |-> G]
      [] flds[1] = "usemtl" ->
            IF Len(flds) > 1
            THEN [ok |-> TRUE, obj |-> [o EXCEPT !.mtlName = flds[2]], mesh |-> m,
                  grps |-> G]
            ELSE [ok |-> FALSE, obj |-> o, mesh |-> m, grps |-> G]
      [] OTHER -> [ok |-> TRUE, obj |-> o, mesh |-> m, grps |-> G]

\* the line is one whose pass ranges over a map: a g record that names a
\* group, or an s record (SetNormalSmoothing resolves the normal cache)
IsFlush(flds) == flds[1] \in {"g", "s"} /\ Len(flds) > 1

\* the deferred function of LoadObj after a panic: the error names the
\* current line, and the results are nil and the error
recovered(o) ==
    [o EXCEPT !.err = [set |-> TRUE, line |-> o.line], !.done = TRUE]

(***************************************************************************)
(* The text LoadObj reads.  Every file starts, after an optional g, usemtl  *)
(* or s record, with the four corners of a square and their texture        *)
(* coordinates; up to MaxBody further lines follow, of which at most        *)
(* MaxFaceLines are f records and at most one is a fifth vertex.  No line  *)
(* is a mtllib record.                                                     *)
(***************************************************************************)
MaxBody == 4

MaxFaceLines == 2

ObjHeader ==
    <<"v 0 0 0", "v 1.0 0 0", "v\t1 1 0", "  v 0 1 0 ",
      "vt 0 0", "vt 1 0", "vt 1  1.0", "vt 0 1">>

GroupLine == "g main"

QuadLine == "f 1/1 2/2 3/3 4/4"

FifthVertex == "v 2.5 2 -2"

FaceLines ==
    {QuadLine, "f -3 -2 -1", "f 1//1 2//1 3//1", "f 1/1/1 2/2/1 3/3/1",
     "f 1 2", "f 3 4 5"}

SmoothOff == "s off"

SmoothOn == "s 1"

FirstLines == {GroupLine, "usemtl a", SmoothOff}

OtherLines == {GroupLine, "usemtl a", "usemtl b", FifthVertex, "v 1 x 0", SmoothOn}

ObjLines == Range(ObjHeader) \cup FaceLines \cup OtherLines \cup FirstLines

\* the number of lines of read that are in the set S
CountIn(read, S) == Cardinality({i \in DOMAIN read : read[i] \in S})

\* the number of lines of read after the header
BodyLen(read) ==
    Len(read) - Len(ObjHeader) - (IF read # <<>> /\ read[1] \in FirstLines THEN 1 ELSE 0)

\* the lines the scanner may return after the lines of read
NextLines(read) ==
    IF read = <<>> THEN {ObjHeader[1]} \cup FirstLines
    ELSE IF BodyLen(read) < 0 THEN {ObjHeader[BodyLen(read) + Len(ObjHeader) + 1]}
    ELSE IF BodyLen(read) >= MaxBody THEN {}
    ELSE (OtherLines \ (IF CountIn(read, {FifthVertex}) > 0 THEN {FifthVertex} ELSE {}))
         \cup (IF CountIn(read, FaceLines) < MaxFaceLines THEN FaceLines ELSE {})

\* the orders in which the ranges over maps of one pass may run
MapOrders(o, flush) ==
    IF flush
    THEN Perms(DOMAIN o.groups)
         \X [1..(IF DOMAIN o.groups = {} THEN 1 ELSE Cardinality(DOMAIN o.groups))
             -> Orders]
    ELSE {<<<<>>, <<"asc">>>>}

\* scanner.Scan() returns the line raw: one pass of the loop of LoadObj
LoadObjLine(raw) ==
    /\ objData # <<>>
    /\ ~objData.done
    /\ raw \in NextLines(objData.read)
    /\ LET o1   == [objData EXCEPT !.read = Append(@, raw), !.line = TrimSpace(raw)]
           flds == splitSpaces(o1.line, 1, "")
       IN  IF o1.line = "" \/ Char(o1.line, 1) = "#"
           THEN objData' = o1 /\ UNCHANGED <<meshes, mgroups>>
           ELSE \E mo \in MapOrders(o1, IsFlush(flds)) :
                \E r \in {scanLine(o1, meshes[1], mgroups, flds, mo[1], mo[2])} :
                   IF r.ok
                   THEN /\ objData' = r.obj
                        /\ meshes' = <<r.mesh>>
                        /\ mgroups' = r.grps
                   ELSE /\ objData' = recovered(o1)
                        /\ UNCHANGED <<meshes, mgroups>>
    /\ UNCHANGED <<nodes, calls, visited, batch, built, meshCache, hist, view, cam, drv, materials>>

\* scanner.Scan() returns false: build("__END") and the return of LoadObj
LoadObjEnd ==
    /\ objData # <<>>
    /\ ~objData.done
    /\ LET o1 == [objData EXCEPT !.atEnd = TRUE]
       IN  \E mo \in MapOrders(o1, TRUE) :
           \E r \in {build(o1, meshes[1], mgroups, "__END", mo[1], mo[2])} :
              IF r.ok
              THEN /\ objData' = [r.obj EXCEPT !.done = TRUE, !.returned = TRUE]
                   /\ meshes' = <<r.mesh>>
                   /\ mgroups' = r.grps
              ELSE /\ objData' = recovered(o1)
                   /\ UNCHANGED <<meshes, mgroups>>
    /\ UNCHANGED <<nodes, calls, visited, batch, built, meshCache, hist, view, cam, drv, materials>>

InitObj ==
    /\ nodes = [n \in NodeIds |-> NoNode]
    /\ calls = <<>>
    /\ visited = [root |-> 0, calls |-> <<>>]
    /\ meshes = <<New>>
    /\ mgroups = <<>>
    /\ batch = NoBatch
    /\ built = NoBuilt
    /\ meshCache = EmptyMap
    /\ hist = NoHist
    /\ objData = NewObj
    /\ view = <<>>
    /\ cam = <<>>
    /\ drv = <<>>
    /\ materials = <<>>

NextObj ==
    \/ \E raw \in ObjLines : LoadObjLine(raw)
    \/ LoadObjEnd

SpecObj == InitObj /\ [][NextObj]_vars

(***************************************************************************)
(* Claims about LoadObj                                                    *)
(***************************************************************************)
\* the whole text was read and LoadObj returned its mesh
Loaded == objData.done /\ objData.atEnd /\ objData.returned /\ ~objData.err.set

\* the text is the group record, the four v and four vt records and the
\* quad face, and nothing else
IsQuadFile(read) ==
    /\ Len(read) = Len(ObjHeader) + 2
    /\ CountIn(read, {GroupLine}) = 1
    /\ CountIn(read, {QuadLine}) = 1

\* C11: loading a text with the one group "g main", no usemtl, four v and
\* four vt records and the single face "f 1/1 2/2 3/3 4/4" returns a mesh with
\* exactly one render group, of 6 indices that reference at most 4 distinct
\* vertex records, with the material "diffuse".
C11_QuadFile ==
    (objData.done /\ objData.atEnd /\ IsQuadFile(objData.read)) =>
        /\ Loaded
        /\ Len(mgroups) = 1
        /\ meshes[1].groups = <<1>>
        /\ Len(mgroups[1].edata) = 6
        /\ Cardinality(Range(mgroups[1].edata)) <= 4
        /\ Len(meshes[1].vdata) <= 4
        /\ \A e \in Range(mgroups[1].edata) : e \in 0..(Len(meshes[1].vdata) - 1)
        /\ mgroups[1].mtlName = "diffuse"

\* the quad file was loaded, with the g record after the face
C11_Witness ==
    /\ Loaded
    /\ IsQuadFile(objData.read)
    /\ objData.read[Len(objData.read)] = GroupLine
    /\ Len(mgroups) = 1
    /\ Len(mgroups[1].edata) = 6

\* the fields of a line of the text
Fields(raw) == splitSpaces(TrimSpace(raw), 1, "")

\* the line has a malformed numeric field (a coordinate that is no number,
\* or a face index that is neither absent nor an integer), or is an f record
\* with fewer than 3 or more than 4 vertices
Offending(raw) ==
    /\ TrimSpace(raw) # ""
    /\ \/ /\ Fields(raw)[1] \in {"v", "vt", "vn"}
          /\ \E i \in 2..Len(Fields(raw)) : ~parsef32(Fields(raw)[i]).ok
       \/ /\ Fields(raw)[1] = "f"
          /\ \/ Len(Fields(raw)) - 1 \notin {3, 4}
             \/ \E i \in 2..Len(Fields(raw)) :
                   \E part \in Range(splitFrom(Fields(raw)[i], "/", 1, "")) :
                      part # "" /\ ~parseint(part).ok

\* the first offending line among the lines read, if there is one
FirstOffending(read) ==
    CHOOSE i \in DOMAIN read :
        Offending(read[i]) /\ \A j \in 1..(i - 1) : ~Offending(read[j])

\* C12: when a line of the text has a malformed numeric field or is an f
\* record with fewer than 3 or more than 4 vertices, LoadObj returns no mesh
\* and an error that holds the text of that line.
C12_ErrorNamesLine ==
    (objData.done /\ \E i \in DOMAIN objData.read : Offending(objData.read[i])) =>
        /\ ~objData.returned
        /\ objData.err.set
        /\ objData.err.line = TrimSpace(objData.read[FirstOffending(objData.read)])

\* the token has one of the forms v, v/vt, v/vt/vn and v//vn
WellFormedToken(tok) ==
    LET parts == splitFrom(tok, "/", 1, "")
    IN  /\ Len(parts) \in 1..3
        /\ parseint(parts[1]).ok
        /\ Len(parts) = 2 => parseint(parts[2]).ok
        /\ Len(parts) = 3 => (parts[2] = "" \/ parseint(parts[2]).ok)
        /\ Len(parts) = 3 => parseint(parts[3]).ok

\* the index at position k of the token, 0 if it is absent
IndexAt(tok, k) ==
    LET parts == splitFrom(tok, "/", 1, "")
    IN  IF k <= Len(parts) /\ parts[k] # "" THEN parseint(parts[k]).val ELSE 0

\* the face the tokens of an f record stand for
FaceOf(flds) ==
    [i \in 1..(Len(flds) - 1) |->
        El(IndexAt(flds[i + 1], 1), IndexAt(flds[i + 1], 2), IndexAt(flds[i + 1], 3))]

\* C13: an f record whose tokens have the forms v, v/vt, v/vt/vn and v//vn is
\* accepted, and the face it adds under the active material has the index 0
\* for every absent texcoord or normal.
C13_AbsentIndexIsZero ==
    (/\ objData.read # <<>>
     /\ ~objData.atEnd
     /\ Fields(objData.line)[1] = "f"
     /\ \A i \in 2..Len(Fields(objData.line)) : WellFormedToken(Fields(objData.line)[i]))
    => /\ ~objData.err.set
       /\ objData.mtlName \in DOMAIN objData.groups
       /\ objData.groups[objData.mtlName][Len(objData.groups[objData.mtlName])]
              = FaceOf(Fields(objData.line))

\* the index n, counted back from the end of a pool of size len if negative
AtRead(n, len) == IF n < 0 THEN len + n + 1 ELSE n

\* the pending faces of o, every negative index replaced by the entry it
\* stood for in the pool as it was when the f record was read
ResolvedGroups(o) ==
    [k \in DOMAIN o.groups |->
        [i \in DOMAIN o.groups[k] |->
            [j \in DOMAIN o.groups[k][i] |->
                El(AtRead(o.groups[k][i][j].Vert, o.poolAt[k][i].nv),
                   AtRead(o.groups[k][i][j].Tex, o.poolAt[k][i].nt),
                   AtRead(o.groups[k][i][j].Norm, o.poolAt[k][i].nn))]]]

\* the step flushed pending faces without an error
Flushed ==
    /\ objData.groups # EmptyMap
    /\ objData'.groups = EmptyMap
    /\ ~objData'.err.set

\* the mesh and the render groups are those of a flush of the faces in groups
FlushOf(groups) ==
    \E mo \in MapOrders(objData, TRUE) :
        \E b \in {buildGroups(meshes[1], mgroups, groups, mo[1], mo[2], 1)} :
            ~b.panic /\ meshes'[1] = b.mesh /\ mgroups' = b.grps

\* C14: a flush gives the mesh it would give if every negative index of the
\* pending faces had been replaced, when its f record was read, by the entry
\* counted back from the end of the pool as it stood then; later v, vt and vn
\* records do not change the attribute a face refers to.
C14_NegativeAtRead == [][Flushed => FlushOf(ResolvedGroups(objData))]_vars

\* the faces of the f records of read from line i on that follow the last g
\* record naming a group, by the material name of the last usemtl record
\* before each (mtl at line i)
RECURSIVE pendingFrom(_, _, _, _)
pendingFrom(read, i, mtl, acc) ==
    IF i > Len(read) THEN acc
    ELSE IF Fields(read[i])[1] = "g" /\ Len(Fields(read[i])) > 1
    THEN pendingFrom(read, i + 1, mtl, EmptyMap)
    ELSE IF Fields(read[i])[1] = "usemtl" /\ Len(Fields(read[i])) > 1
    THEN pendingFrom(read, i + 1, Fields(read[i])[2], acc)
    ELSE IF Fields(read[i])[1] = "f"
    THEN pendingFrom(read, i + 1, mtl, MapAppend(acc, mtl, FaceOf(Fields(read[i]))))
    ELSE pendingFrom(read, i + 1, mtl, acc)

\* the number of indices of the triangles of a sequence of faces
RECURSIVE IndexCount(_)
IndexCount(faces) ==
    IF faces = <<>> THEN 0
    ELSE (IF Len(faces[1]) = 3 THEN 3 ELSE 6) + IndexCount(Rest(faces))

\* the material a Build call with the name mat gives its render group
BuiltName(mat) == IF mat = "" THEN "diffuse" ELSE mat

\* the render groups the step added
NewGroups == (Len(mgroups) + 1)..Len(mgroups')

\* C15: when a group is flushed without an error, the step adds exactly one
\* render group for every material name that was active for an f record since
\* the last group boundary, and that render group holds the triangles of all
\* these f records, also of those separated by usemtl records of other names.
C15_OneBuildPerMaterial ==
    [][Flushed =>
          /\ Cardinality(NewGroups) = Cardinality(DOMAIN pendingFrom(objData.read, 1, "", EmptyMap))
          /\ \A mat \in DOMAIN pendingFrom(objData.read, 1, "", EmptyMap) :
                /\ Cardinality({g \in NewGroups : mgroups'[g].mtlName = BuiltName(mat)}) = 1
                /\ \A g \in NewGroups :
                      mgroups'[g].mtlName = BuiltName(mat) =>
                          Len(mgroups'[g].edata)
                             = IndexCount(pendingFrom(objData.read, 1, "", EmptyMap)[mat])
    ]_vars

\* a text was loaded in which a usemtl record of another material lies
\* between two faces of the material a, and the mesh has one render group,
\* with the triangles of both faces
C15_Witness ==
    /\ Loaded
    /\ \E i, j, k \in DOMAIN objData.read :
          /\ i < j /\ j < k
          /\ objData.read[i] \in FaceLines
          /\ objData.read[j] = "usemtl b"
          /\ objData.read[k] \in FaceLines
    /\ Len(mgroups) = 1
    /\ mgroups[1].mtlName = "a"
    /\ Len(mgroups[1].edata) >= 6

(***************************************************************************)
(* Lights of a View.  view.Lights are the lights AddLight was given,       *)
(* view.item is the Light field of the Item nodes[1] (empty for nil) and   *)
(* view.ldata is the array UpdateLights builds.  Besides the fields of the *)
(* struct Light a light carries w0, the w component its constructor gave   *)
(* its position; no operation writes it and the struct copy of addLight    *)
(* copies it.  view.last holds the arguments of the last UpdateLights call *)
(* and view.ops counts the calls.                                          *)
(***************************************************************************)
MaxLights == 4

MaxLightOps == 6

\* mgl32.Mat4.Mul4x1
Mul4x1(m, v) ==
    [r \in 1..4 |->
        FAdd(FAdd(FAdd(FMul(At(m, r - 1, 0), v[1]), FMul(At(m, r - 1, 1), v[2])),
                  FMul(At(m, r - 1, 2), v[3])),
             FMul(At(m, r - 1, 3), v[4]))]

\* direction is the vector of the Polar argument with R set to 1
DirectionalLight(color, ambient, direction) ==
    [Pos |-> <<direction[1], direction[2], direction[3], F0>>,
     Col |-> <<color[1], color[2], color[3], ambient>>, On |-> TRUE, posw |-> F0,
     w0 |-> F0]

PointLight(color, ambient, position, attenuation) ==
    [Pos |-> <<position[1], position[2], position[3], attenuation>>,
     Col |-> <<color[1], color[2], color[3], ambient>>, On |-> TRUE, posw |-> F1,
     w0 |-> attenuation]

\* an addLight that keeps the w component the transform gives
addLightTransformedW(ldata, l, trans) ==
    IF l # <<>> /\ l[1].On
    THEN Append(ldata, [l[1] EXCEPT !.Pos =
                           Mul4x1(trans, <<l[1].Pos[1], l[1].Pos[2], l[1].Pos[3],
                                           l[1].posw>>)])
    ELSE ldata

\* View.addLight, for the pointer l: <<>> for nil, else <<the light>>
addLight(ldata, l, trans) ==
    IF l # <<>> /\ l[1].On
    THEN Append(ldata, [l[1] EXCEPT !.Pos =
                           [Mul4x1(trans, <<l[1].Pos[1], l[1].Pos[2], l[1].Pos[3],
                                            l[1].posw>>)
                              EXCEPT ![4] = l[1].Pos[4]]])
    ELSE ldata

\* the loop of UpdateLights over the static lights, from position i
RECURSIVE staticLights(_, _, _, _)
staticLights(ldata, lights, i, worldToCamera) ==
    IF i > Len(lights) THEN ldata
    ELSE staticLights(addLight(ldata, <<lights[i]>>, worldToCamera), lights, i + 1,
                      worldToCamera)

\* the calls of the visitor of UpdateLights, from position i of the calls
\* scene.Do makes; every Item of the scene has the light item
RECURSIVE sceneLights(_, _, _, _)
sceneLights(ldata, item, cs, i) ==
    IF i > Len(cs) THEN ldata
    ELSE sceneLights(addLight(ldata, item, cs[i][2].Mat4), item, cs, i + 1)

\* View.UpdateLights; scene is a node or 0 for nil
UpdateLights(v, worldToCamera, scene) ==
    [v EXCEPT !.ldata =
        IF scene # 0
        THEN sceneLights(staticLights(<<>>, v.Lights, 1, worldToCamera), v.item,
                         ObjectDo(scene, NewTransform(worldToCamera)), 1)
        ELSE staticLights(<<>>, v.Lights, 1, worldToCamera)]

\* NewView
NewView == [Lights |-> <<>>, ldata |-> <<>>, item |-> <<>>,
            last |-> [valid |-> FALSE, mat |-> Ident4, scene |-> 0], ops |-> 0]

Half == <<1, -1>>

White == <<F1, F1, F1>>

\* a matrix whose last row is not (0, 0, 0, 1)
Projective == [Ident4 EXCEPT ![12] = FInt(-1), ![16] = F0]

ViewMats ==
    {Ident4, Translate3D(FInt(1), FInt(2), FInt(3)),
     Mul4(Translate3D(F0, F0, FInt(-2)), Scale3D(FInt(2), FInt(2), FInt(2))),
     Projective}

Directions == {P3(0, 1, 0), <<Half, Half, FInt(-1)>>}

Attenuations == {Half, FInt(2)}

NewLights ==
    {DirectionalLight(White, Half, d) : d \in Directions}
    \cup {PointLight(White, Half, P3(1, 2, 3), a) : a \in Attenuations}

LightsRunning == view # <<>> /\ view.ops < MaxLightOps

CallAddLight(l) ==
    /\ LightsRunning
    /\ Len(view.Lights) < MaxLights
    /\ view' = [view EXCEPT !.Lights = Append(@, l), !.ops = @ + 1]
    /\ UNCHANGED <<nodes, calls, visited, meshes, mgroups, batch, built, meshCache,
                   hist, objData, cam, drv, materials>>

\* Item.Illuminate on nodes[1]
CallIlluminate(attenuation) ==
    /\ LightsRunning
    /\ view' = [view EXCEPT !.item = <<PointLight(White, Half, P3(0, 0, 0), attenuation)>>,
                           !.ops = @ + 1]
    /\ UNCHANGED <<nodes, calls, visited, meshes, mgroups, batch, built, meshCache,
                   hist, objData, cam, drv, materials>>

\* the caller switches the static light i on or off
CallShowLight(i, on) ==
    /\ LightsRunning
    /\ i \in DOMAIN view.Lights
    /\ view.Lights[i].On # on
    /\ view' = [view EXCEPT !.Lights[i].On = on, !.ops = @ + 1]
    /\ UNCHANGED <<nodes, calls, visited, meshes, mgroups, batch, built, meshCache,
                   hist, objData, cam, drv, materials>>

\* Light.Rotate on the static light i, a directional light; direction is
\* the vector of the rotated Polar
CallLightRotate(i, direction) ==
    /\ LightsRunning
    /\ i \in DOMAIN view.Lights
    /\ view.Lights[i].Pos[4] = F0
    /\ view' = [view EXCEPT !.Lights[i].Pos =
                               <<direction[1], direction[2], direction[3], F0>>,
                           !.ops = @ + 1]
    /\ UNCHANGED <<nodes, calls, visited, meshes, mgroups, batch, built, meshCache,
                   hist, objData, cam, drv, materials>>

CallUpdateLights(worldToCamera, scene) ==
    /\ LightsRunning
    /\ view' = [UpdateLights(view, worldToCamera, scene) EXCEPT
                   !.last = [valid |-> TRUE, mat |-> worldToCamera, scene |-> scene],
                   !.ops = @ + 1]
    /\ UNCHANGED <<nodes, calls, visited, meshes, mgroups, batch, built, meshCache,
                   hist, objData, cam, drv, materials>>

\* a new view, and a scene of one Item that was translated
InitLight ==
    /\ nodes = [n \in NodeIds |->
                   IF n = 1
                   THEN [NewItem EXCEPT !.T.Mat4 = Translate3D(FInt(1), F0, FInt(-1))]
                   ELSE NoNode]
    /\ calls = <<>>
    /\ visited = [root |-> 0, calls |-> <<>>]
    /\ meshes = <<>>
    /\ mgroups = <<>>
    /\ batch = NoBatch
    /\ built = NoBuilt
    /\ meshCache = EmptyMap
    /\ hist = NoHist
    /\ objData = <<>>
    /\ view = NewView
    /\ cam = <<>>
    /\ drv = <<>>
    /\ materials = <<>>

NextLight ==
    \/ \E l \in NewLights : CallAddLight(l)
    \/ \E a \in Attenuations : CallIlluminate(a)
    \/ \E i \in 1..MaxLights, on \in BOOLEAN : CallShowLight(i, on)
    \/ \E i \in 1..MaxLights, d \in Directions : CallLightRotate(i, d)
    \/ \E m \in ViewMats, scene \in {0, 1} : CallUpdateLights(m, scene)

SpecLight == InitLight /\ [][NextLight]_vars

\* C16: after every light update, for every transform matrix, the w
\* component of each position in the per-frame light array is the w
\* component its light was constructed with: 0 for a directional light, the
\* attenuation for a point light.
C16_LightW ==
    view.last.valid =>
        \A i \in DOMAIN view.ldata :
            /\ view.ldata[i].Pos[4] = view.ldata[i].w0
            /\ view.ldata[i].posw = F0 => view.ldata[i].Pos[4] = F0

\* an update with a matrix that translates put a directional light and the
\* point light of the scene's Item into the array
C16_Witness ==
    /\ view.last.valid
    /\ view.last.mat # Ident4
    /\ view.last.scene = 1
    /\ \E i, j \in DOMAIN view.ldata :
          /\ view.ldata[i].posw = F0
          /\ view.ldata[j].posw = F1
          /\ view.ldata[j].Pos[4] = Half
          /\ view.ldata[j].Pos[1] # F0

(***************************************************************************)
(* The arc-ball camera.  cam.toEye is the Polar of the camera, minz, maxz, *)
(* mint and maxt are its limits, cam.last is the call made last and        *)
(* cam.ops counts the calls.  The angles of the model are multiples of     *)
(* 1/2 degree below 2^12, for which the float64 quotient phi/360 truncates *)
(* as the exact quotient does.                                             *)
(***************************************************************************)
MaxCamOps == 4

\* the float32 nearest to 1.05
ZoomScale == <<4404019, -22>>

RotateScale == F1

\* glu.Clamp
Clamp(x, min, max) ==
    IF FLt(x, min) THEN min
    ELSE IF FLt(max, x) THEN max
    ELSE x

RECURSIVE Pow2(_)
Pow2(k) == IF k = 0 THEN 1 ELSE 2 * Pow2(k - 1)

\* math.Trunc(|x| / 360) for the float32 x
TruncBy360(x) ==
    IF x[2] >= 0 THEN (Abs(x[1]) * Pow2(x[2])) \div 360
    ELSE Abs(x[1]) \div (360 * Pow2(-x[2]))

\* the second test of Polar.Clamp, on the azimuth p after the first test,
\* where phi is the azimuth before it
wrapNegative(p, phi) ==
    IF FLt(p, F0) THEN FAdd(p, FInt((1 + TruncBy360(phi)) * 360)) ELSE p

\* Polar.Clamp
PolarClamp(p) ==
    [p EXCEPT !.Theta = Clamp(@, FInt(1), FInt(179)),
              !.Phi = wrapNegative(IF FLt(FInt(360), @)
                                   THEN FSub(@, FInt(TruncBy360(@) * 360))
                                   ELSE @, @)]

\* ArcBallCamera
ArcBallCamera(toEye, minZ, maxZ, minTheta, maxTheta) ==
    [toEye |-> toEye, minz |-> minZ, maxz |-> maxZ, mint |-> minTheta,
     maxt |-> maxTheta, last |-> "new", ops |-> 0]

\* arcBallCamera.Move
Move(c, amount) ==
    [c EXCEPT !.toEye.R =
        Clamp(IF FLt(amount, F0) THEN FMul(@, ZoomScale)
              ELSE IF FLt(F0, amount) THEN FMul(@, FDiv(F1, ZoomScale))
              ELSE @, c.minz, c.maxz)]

\* arcBallCamera.Rotate
Rotate(c, dx, dy) ==
    [c EXCEPT !.toEye =
        PolarClamp([@ EXCEPT !.Phi = FSub(@, FMul(dx, RotateScale)),
                             !.Theta = Clamp(FSub(@, FMul(dy, RotateScale)),
                                             c.mint, c.maxt)])]

\* the cameras of the examples: the limits of the loader example, and the
\* widest limits for the inclination
Cameras ==
    {ArcBallCamera([R |-> FInt(2), Theta |-> FInt(70), Phi |-> FInt(45)],
                   Half, FInt(3), FInt(10), FInt(170)),
     ArcBallCamera([R |-> FInt(2), Theta |-> FInt(70), Phi |-> F0],
                   FInt(1), FInt(4), F0, FInt(180))}

Amounts == {FInt(-1), F0, FInt(1)}

TurnsX == {FInt(-360), FInt(-315), FInt(-90), <<91, -1>>, FInt(400)}

TurnsY == {FInt(-200), F0, FInt(30)}

CallMove(amount) ==
    /\ cam # <<>>
    /\ cam.ops < MaxCamOps
    /\ cam' = [Move(cam, amount) EXCEPT !.last = "Move", !.ops = @ + 1]
    /\ UNCHANGED <<nodes, calls, visited, meshes, mgroups, batch, built, meshCache,
                   hist, objData, view, drv, materials>>

CallRotate(dx, dy) ==
    /\ cam # <<>>
    /\ cam.ops < MaxCamOps
    /\ cam' = [Rotate(cam, dx, dy) EXCEPT !.last = "Rotate", !.ops = @ + 1]
    /\ UNCHANGED <<nodes, calls, visited, meshes, mgroups, batch, built, meshCache,
                   hist, objData, view, drv, materials>>

InitCam ==
    /\ nodes = [n \in NodeIds |-> NoNode]
    /\ calls = <<>>
    /\ visited = [root |-> 0, calls |-> <<>>]
    /\ meshes = <<>>
    /\ mgroups = <<>>
    /\ batch = NoBatch
    /\ built = NoBuilt
    /\ meshCache = EmptyMap
    /\ hist = NoHist
    /\ objData = <<>>
    /\ view = <<>>
    /\ cam \in Cameras
    /\ drv = <<>>
    /\ materials = <<>>

NextCam ==
    \/ \E amount \in Amounts : CallMove(amount)
    \/ \E dx \in TurnsX, dy \in TurnsY : CallRotate(dx, dy)

SpecCam == InitCam /\ [][NextCam]_vars

\* a <= x, and x <= b
FLe(a, b) == ~FLt(b, a)

\* C17: after every Move the polar radius lies in [min, max]; after every
\* Rotate the inclination lies in [minTheta, maxTheta] and the azimuth lies
\* in [0, 360).
C17_Clamped ==
    /\ cam.last = "Move" =>
          FLe(cam.minz, cam.toEye.R) /\ FLe(cam.toEye.R, cam.maxz)
    /\ cam.last = "Rotate" =>
          /\ FLe(cam.mint, cam.toEye.Theta) /\ FLe(cam.toEye.Theta, cam.maxt)
          /\ FLe(F0, cam.toEye.Phi) /\ FLt(cam.toEye.Phi, FInt(360))

(***************************************************************************)
(* The loader example: the render thread runs Paint, the user interface    *)
(* thread runs SetModel, and Paint starts goroutines that run loadMesh.    *)
(* drv.models is the map t.models (inited is FALSE while it is nil),       *)
(* drv.locked the state of the mutex t.loading, drv.render the position of *)
(* the render thread in Paint and drv.loaders the goroutines started so    *)
(* far.  Paint is cut where it can block (Lock) and where it reads what a  *)
(* goroutine writes (t.modelName, and then the map); loadMesh is cut at    *)
(* its reads and writes of the shared fields, and its map assignment has a *)
(* beginning and an end.  A map read that runs while a goroutine is inside *)
(* a map assignment is a data race: it finds the old value or the new one, *)
(* or the runtime stops the program.  drv.drawn is the outcome of the last *)
(* lookup of Paint.                                                        *)
(***************************************************************************)
MaxPaints == 3

MaxSets == 2

MaxLoads == 2

ModelNames == {"cube", "teapot", "bunny"}

\* the scene object loadMesh makes for the model name; ok tells whether
\* LoadObjFile returned a mesh
NewModel(name, ok) == [model |-> name, mesh |-> ok]

NewDriver ==
    [inited |-> FALSE, models |-> EmptyMap, setModel |-> "", modelName |-> "",
     locked |-> FALSE, render |-> [pc |-> "idle", name |-> ""], loaders |-> <<>>,
     drawn |-> [valid |-> FALSE, name |-> "", seen |-> "nil", raced |-> FALSE,
                panicked |-> FALSE],
     crashed |-> FALSE, paints |-> 0, sets |-> 0]

DrvRunning == drv # <<>> /\ ~drv.crashed

\* initialise, with its synchronous loadMesh("cube")
initialise(d, ok) ==
    [d EXCEPT !.inited = TRUE, !.models = MapPut(EmptyMap, "cube", NewModel("cube", ok)),
              !.setModel = "cube", !.modelName = "cube"]

\* the value a lookup of the name finds in the map
Lookup(models, name) == IF name \in DOMAIN models THEN "object" ELSE "nil"

\* Model.SetModel on the user interface thread
SetModel(name) ==
    /\ DrvRunning
    /\ drv.sets < MaxSets
    /\ name # ""
    /\ drv' = [drv EXCEPT !.setModel = name, !.sets = @ + 1]
    /\ UNCHANGED <<nodes, calls, visited, meshes, mgroups, batch, built, meshCache,
                   hist, objData, view, cam, materials>>

\* Paint up to its test of t.setModel != t.modelName
PaintBegin ==
    /\ DrvRunning
    /\ drv.render.pc = "idle"
    /\ drv.paints < MaxPaints
    /\ \E ok \in (IF drv.inited THEN {TRUE} ELSE BOOLEAN) :
       \E d \in {IF drv.inited THEN drv ELSE initialise(drv, ok)} :
          drv' = [d EXCEPT !.paints = @ + 1,
                           !.render.pc = IF d.setModel # d.modelName THEN "lock"
                                         ELSE "draw"]
    /\ UNCHANGED <<nodes, calls, visited, meshes, mgroups, batch, built, meshCache,
                   hist, objData, view, cam, materials>>

\* a Paint that starts the goroutine without taking the lock
PaintLockNoWait ==
    /\ DrvRunning
    /\ drv.render.pc = "lock"
    /\ Len(drv.loaders) < MaxLoads
    /\ drv' = [drv EXCEPT !.locked = TRUE,
                          !.loaders = Append(@, [pc |-> "start", name |-> "",
                                                 ok |-> FALSE]),
                          !.render.pc = "draw"]
    /\ UNCHANGED <<nodes, calls, visited, meshes, mgroups, batch, built, meshCache,
                   hist, objData, view, cam, materials>>

\* t.loading.Lock() returns, and Paint starts the goroutine
PaintLock ==
    /\ DrvRunning
    /\ drv.render.pc = "lock"
    /\ ~drv.locked
    /\ Len(drv.loaders) < MaxLoads
    /\ drv' = [drv EXCEPT !.locked = TRUE,
                          !.loaders = Append(@, [pc |-> "start", name |-> "",
                                                 ok |-> FALSE]),
                          !.render.pc = "draw"]
    /\ UNCHANGED <<nodes, calls, visited, meshes, mgroups, batch, built, meshCache,
                   hist, objData, view, cam, materials>>

\* Paint evaluates t.modelName for its lookup
PaintRead ==
    /\ DrvRunning
    /\ drv.render.pc = "draw"
    /\ drv' = [drv EXCEPT !.render = [pc |-> "lookup", name |-> drv.modelName]]
    /\ UNCHANGED <<nodes, calls, visited, meshes, mgroups, batch, built, meshCache,
                   hist, objData, view, cam, materials>>

\* a goroutine is inside its map assignment
Storing == \E g \in DOMAIN drv.loaders : drv.loaders[g].pc = "storing"

\* the name a goroutine inside its map assignment is storing
StoringNames == {drv.loaders[g].name : g \in {h \in DOMAIN drv.loaders : drv.loaders[h].pc = "storing"}}

\* the object the lookup found has a mesh: the entry of the map, or the entry
\* a goroutine is storing
HasMesh(name) ==
    IF name \in DOMAIN drv.models THEN drv.models[name].mesh
    ELSE \E g \in DOMAIN drv.loaders :
            /\ drv.loaders[g].pc = "storing"
            /\ drv.loaders[g].name = name
            /\ drv.loaders[g].ok

\* View.Draw panics: the scene is the nil interface, or Item.Do hands the
\* visitor an Item whose Mesh is nil and Mesh.Draw dereferences it
DrawPanics(seen, name) == seen = "nil" \/ (seen = "object" /\ ~HasMesh(name))

\* Paint looks t.models[name] up and draws it; a panic or a fault of the
\* runtime ends the program
PaintDraw ==
    /\ DrvRunning
    /\ drv.render.pc = "lookup"
    /\ \E seen \in {Lookup(drv.models, drv.render.name)}
                   \cup (IF Storing THEN {"fault"} ELSE {})
                   \cup (IF drv.render.name \in StoringNames THEN {"object"} ELSE {}) :
          drv' = [drv EXCEPT !.drawn = [valid |-> TRUE, name |-> drv.render.name,
                                        seen |-> seen, raced |-> Storing,
                                        panicked |-> DrawPanics(seen, drv.render.name)],
                             !.crashed = (seen = "fault"
                                          \/ DrawPanics(seen, drv.render.name)),
                             !.render.pc = "idle"]
    /\ UNCHANGED <<nodes, calls, visited, meshes, mgroups, batch, built, meshCache,
                   hist, objData, view, cam, materials>>

\* the goroutine g starts: loadMesh(t.setModel) up to its test of the map
LoadStart(g) ==
    /\ DrvRunning
    /\ g \in DOMAIN drv.loaders
    /\ drv.loaders[g].pc = "start"
    /\ drv' = [drv EXCEPT !.loaders[g] =
                  [pc |-> IF drv.setModel \in DOMAIN drv.models THEN "setname"
                          ELSE "loading",
                   name |-> drv.setModel, ok |-> FALSE]]
    /\ UNCHANGED <<nodes, calls, visited, meshes, mgroups, batch, built, meshCache,
                   hist, objData, view, cam, materials>>

\* LoadObjFile returns, with a mesh or with an error
LoadFile(g, ok) ==
    /\ DrvRunning
    /\ g \in DOMAIN drv.loaders
    /\ drv.loaders[g].pc = "loading"
    /\ drv' = [drv EXCEPT !.loaders[g].pc = "store", !.loaders[g].ok = ok]
    /\ UNCHANGED <<nodes, calls, visited, meshes, mgroups, batch, built, meshCache,
                   hist, objData, view, cam, materials>>

\* the map assignment t.models[name] = ... begins
LoadStore(g) ==
    /\ DrvRunning
    /\ g \in DOMAIN drv.loaders
    /\ drv.loaders[g].pc = "store"
    /\ drv' = [drv EXCEPT !.loaders[g].pc = "storing"]
    /\ UNCHANGED <<nodes, calls, visited, meshes, mgroups, batch, built, meshCache,
                   hist, objData, view, cam, materials>>

\* the map assignment ends
LoadStored(g) ==
    /\ DrvRunning
    /\ g \in DOMAIN drv.loaders
    /\ drv.loaders[g].pc = "storing"
    /\ drv' = [drv EXCEPT !.models = MapPut(@, drv.loaders[g].name,
                                            NewModel(drv.loaders[g].name,
                                                     drv.loaders[g].ok)),
                          !.loaders[g].pc = "setname"]
    /\ UNCHANGED <<nodes, calls, visited, meshes, mgroups, batch, built, meshCache,
                   hist, objData, view, cam, materials>>

\* t.modelName = name, and loadMesh returns
LoadSetName(g) ==
    /\ DrvRunning
    /\ g \in DOMAIN drv.loaders
    /\ drv.loaders[g].pc = "setname"
    /\ drv' = [drv EXCEPT !.modelName = drv.loaders[g].name,
                          !.loaders[g].pc = "unlock"]
    /\ UNCHANGED <<nodes, calls, visited, meshes, mgroups, batch, built, meshCache,
                   hist, objData, view, cam, materials>>

\* t.loading.Unlock(), and the goroutine ends
LoadUnlock(g) ==
    /\ DrvRunning
    /\ g \in DOMAIN drv.loaders
    /\ drv.loaders[g].pc = "unlock"
    /\ drv' = [drv EXCEPT !.locked = FALSE, !.loaders[g].pc = "done"]
    /\ UNCHANGED <<nodes, calls, visited, meshes, mgroups, batch, built, meshCache,
                   hist, objData, view, cam, materials>>

InitLoad ==
    /\ nodes = [n \in NodeIds |-> NoNode]
    /\ calls = <<>>
    /\ visited = [root |-> 0, calls |-> <<>>]
    /\ meshes = <<>>
    /\ mgroups = <<>>
    /\ batch = NoBatch
    /\ built = NoBuilt
    /\ meshCache = EmptyMap
    /\ hist = NoHist
    /\ objData = <<>>
    /\ view = <<>>
    /\ cam = <<>>
    /\ drv = NewDriver
    /\ materials = <<>>

NextLoad ==
    \/ \E name \in ModelNames : SetModel(name)
    \/ PaintBegin
    \/ PaintLock
    \/ PaintRead
    \/ PaintDraw
    \/ \E g \in 1..MaxLoads : LoadStart(g)
    \/ \E g \in 1..MaxLoads, ok \in BOOLEAN : LoadFile(g, ok)
    \/ \E g \in 1..MaxLoads : LoadStore(g)
    \/ \E g \in 1..MaxLoads : LoadStored(g)
    \/ \E g \in 1..MaxLoads : LoadSetName(g)
    \/ \E g \in 1..MaxLoads : LoadUnlock(g)

SpecLoad == InitLoad /\ [][NextLoad]_vars

\* the goroutines whose loadMesh has not returned
InFlight ==
    {g \in DOMAIN drv.loaders :
        drv.loaders[g].pc \in {"start", "loading", "store", "storing", "setname"}}

\* the goroutines that have not called Unlock
Holding == {g \in DOMAIN drv.loaders : drv.loaders[g].pc # "done"}

\* C18: at most one background load is in flight at any time; the lock is
\* held from the start of a load goroutine until after its loadMesh has
\* returned.
C18_OneLoad ==
    /\ Cardinality(Holding) <= 1
    /\ Holding # {} => drv.locked
    /\ InFlight \subseteq Holding

\* a load is in flight and holds the lock while the next Paint, which saw
\* that the selected model is not the current one, is at the Lock call
C18_Witness ==
    /\ Cardinality(InFlight) = 1
    /\ drv.locked
    /\ drv.render.pc = "lock"
    /\ drv.paints >= 2

\* C19: the lookup models[modelName] of Paint never runs while a loadMesh is
\* writing the map, and what Paint draws is an entry that was completely
\* registered before the read.
C19_NoConcurrentRead ==
    /\ ~(drv.render.pc = "lookup" /\ Storing)
    /\ drv.drawn.valid => (~drv.drawn.raced /\ drv.drawn.seen = "object")

\* C20: while a background load is in flight, no Paint call waits at the
\* loading lock.
C20_PaintNeverBlocks ==
    ~(drv.render.pc = "lock" /\ drv.locked /\ InFlight # {})

\* C21: after a load failed the driver keeps running: no Paint call panics in
\* its draw, whatever was loaded before.
C21_FailedLoadKeepsRunning == ~drv.drawn.panicked

(***************************************************************************)
(* Further claims about the mesh builder (SpecMesh)                        *)
(***************************************************************************)
\* the number of face normals pushed to the running mean of vertex v
PushCount(m, v) ==
    IF v \in DOMAIN m.ncache.vert2norm THEN m.ncache.vert2norm[v].count ELSE F0

\* the step is AddFace(f) on a mesh with smoothing on, for a face whose
\* normal is computed
SmoothFaceAdded(f) ==
    /\ batch'.total = batch.total + 1
    /\ batch'.faces # <<>>
    /\ Len(batch'.faces) = (IF batch.faces = <<>> THEN 1 ELSE Len(batch.faces) + 1)
    /\ batch'.faces[Len(batch'.faces)] = f
    /\ Len(meshes'[1].elements) > Len(meshes[1].elements)
    /\ meshes[1].ncache.smooth
    /\ ComputesNormal(f)

\* C22: with smoothing on, a face with a computed normal, triangle or quad,
\* pushes its face normal exactly once to the running mean of each of its
\* vertices.
C22_QuadWeight ==
    [][\A f \in Faces :
          SmoothFaceAdded(f) =>
              \A i \in DOMAIN f :
                  PushCount(meshes'[1], f[i].Vert)
                     = FAdd(PushCount(meshes[1], f[i].Vert), F1)]_vars

\* every element of the face names a texture coordinate
AllTextured(f) == \A i \in DOMAIN f : f[i].Tex # 0

\* twice the signed area, in texture space, of the triangle formed by the
\* first three elements of the face
TexArea(f) ==
    LET t1 == TexCoords[f[1].Tex]
        t2 == TexCoords[f[2].Tex]
        t3 == TexCoords[f[3].Tex]
    IN  FSub(FMul(FSub(t2[1], t1[1]), FSub(t3[2], t1[2])),
             FMul(FSub(t3[1], t1[1]), FSub(t2[2], t1[2])))

\* the step is AddFace(f)
FaceAdded(f) ==
    /\ batch'.total = batch.total + 1
    /\ batch'.faces # <<>>
    /\ Len(batch'.faces) = (IF batch.faces = <<>> THEN 1 ELSE Len(batch.faces) + 1)
    /\ batch'.faces[Len(batch'.faces)] = f
    /\ Len(meshes'[1].elements) > Len(meshes[1].elements)

\* the elements the step appended to the mesh
AddedElements == 
    SubSeq(meshes'[1].elements, Len(meshes[1].elements) + 1, Len(meshes'[1].elements))

\* C23: AddFace gives the elements of a face a tangent exactly when every
\* element has a texture coordinate and the texture-space area of its first
\* three elements is at least epsilon in magnitude; otherwise they keep
\* tangent index 0.
C23_TangentIffArea ==
    [][\A f \in Faces :
          FaceAdded(f) =>
              LET has == AllTextured(f) /\ ~FLt(FAbs(TexArea(f)), epsilon)
              IN  \A i \in DOMAIN AddedElements :
                      (AddedElements[i].tang # 0) <=> has]_vars

(***************************************************************************)
(* Further claims about the lights (SpecLight)                             *)
(***************************************************************************)
\* C24: the per-frame light array built by UpdateLights, static lights plus
\* the lights of the enabled items of the scene, never holds more than
\* MaxLights entries, so Draw sets no light uniform at index MaxLights or more.
C24_LightsCapped == Len(view.ldata) <= MaxLights

(***************************************************************************)
(* Further claims about built meshes (SpecInvert)                          *)
(***************************************************************************)
\* the step is a Draw on the mesh i that binds its buffers and draws its groups
Draws(i) ==
    /\ i \in DOMAIN meshes
    /\ CallDraw(i)
    /\ ~loadMaterials(mgroups, meshes[i].groups, 1, FALSE, meshes[i].bumpMap).err

\* the number of vertex records in the vertex buffer bound by the Draw on i
BoundRecords(i) == hist'.uploaded[meshes'[i].varray[meshes[i].inverted + 1]]

\* C25: at every Draw of a mesh, after any sequence of Build and Draw calls,
\* every index of every group it draws is smaller than the number of vertex
\* records in the GPU vertex buffer bound for the Draw, also for a group that
\* Build added after the first Draw.
C25_IndicesInBuffer ==
    [][\A i \in MeshIds :
          Draws(i) =>
              \A k \in DOMAIN meshes[i].groups :
                  \A e \in DOMAIN mgroups[meshes[i].groups[k]].edata :
                      mgroups[meshes[i].groups[k]].edata[e] < BoundRecords(i)]_vars

(***************************************************************************)
(* Further claims about LoadObj (SpecObj)                                  *)
(***************************************************************************)
\* the smoothing mode the text sets for line k: that of the last s record
\* before it
ModeAt(read, k) ==
    LET S == {i \in 1..(k - 1) : Fields(read[i])[1] = "s"}
    IN  IF S = {} THEN "unset"
        ELSE IF Fields(read[CHOOSE i \in S : \A j \in S : j <= i])[2] = "off"
        THEN "off" ELSE "on"

\* every f record of the text was read while smoothing was off
FacesReadFlat(read) ==
    \A k \in DOMAIN read : Fields(read[k])[1] = "f" => ModeAt(read, k) = "off"

\* the normal of the vertex record with index r
NormalOf(vdata, r) == <<vdata[r + 1][4], vdata[r + 1][5], vdata[r + 1][6]>>

\* the three vertex records of every triangle of the group carry one normal
FlatGroup(vdata, edata) ==
    \A t \in 0..((Len(edata) \div 3) - 1) :
        /\ NormalOf(vdata, edata[3 * t + 1]) = NormalOf(vdata, edata[3 * t + 2])
        /\ NormalOf(vdata, edata[3 * t + 1]) = NormalOf(vdata, edata[3 * t + 3])

\* C26: the smoothing mode applied to a face is that of the last s record
\* before its f record: when every f record was read while smoothing was off,
\* the faces a flush builds have flat normals, one normal for the vertices of
\* each triangle, whatever s records follow the faces.
C26_SmoothingAtRead ==
    [][(Flushed /\ FacesReadFlat(objData.read)) =>
          \A g \in NewGroups : FlatGroup(meshes'[1].vdata, mgroups'[g].edata)]_vars

(***************************************************************************)
(* Further claims about the shape generators (SpecGen)                     *)
(***************************************************************************)
\* the materials of the groups of the mesh M[j]
MaterialsOf(M, G, j) == [k \in DOMAIN M[j].groups |-> G[M[j].groups[k]].mtl]

\* the step is SetMaterial on the mesh i, which a generator returned or
\* Invert made from such a mesh
MaterialSetOn(i) ==
    /\ i \in DOMAIN meshes
    /\ \E mtl \in UserMaterials : CallSetMaterial(i, mtl)

\* the meshes the step returned from a generator
JustReturned == {hist'.returned[r].mesh : r \in (Len(hist.returned) + 1)..Len(hist'.returned)}

\* C27: SetMaterial on a mesh a generator returned, or on the Invert of one,
\* changes the materials of that mesh only: every other mesh keeps its
\* materials, and no mesh that a later call of a generator returns carries a
\* material that a caller set on another mesh.
C27_MaterialPerInstance ==
    [][/\ \A i \in MeshIds :
             MaterialSetOn(i) =>
                 \A j \in DOMAIN meshes \ {i} :
                     MaterialsOf(meshes', mgroups', j) = MaterialsOf(meshes, mgroups, j)
       /\ \A j \in JustReturned :
             \A k \in DOMAIN meshes'[j].groups :
                 mgroups'[meshes'[j].groups[k]].mtl \notin UserMaterials]_vars

(***************************************************************************)
(* Determinism of LoadObj (SpecObj)                                        *)
(***************************************************************************)
\* what LoadObj returns of the mesh: the render groups in their order, with
\* material name and index list, and the vertex data
Returned(m, G) ==
    [groups |-> [k \in DOMAIN m.groups |->
                    [mtlName |-> G[m.groups[k]].mtlName, edata |-> G[m.groups[k]].edata]],
     vdata  |-> m.vdata]

\* every order in which the flush may range over its maps gives the outcome
\* of the step
SameForAllOrders ==
    \A mo \in MapOrders(objData, TRUE) :
        \A b \in {buildGroups(meshes[1], mgroups, objData.groups, mo[1], mo[2], 1)} :
            /\ ~b.panic
            /\ Returned(b.mesh, b.grps) = Returned(meshes'[1], mgroups')

\* C28: LoadObj is deterministic: a flush of the pending faces, also of faces
\* of several materials in one group, gives the same render groups in the
\* same order, the same index lists and the same vertex data whenever the
\* same text is loaded.
C28_Deterministic == [][Flushed => SameForAllOrders]_vars

(***************************************************************************)
(* Clone of scene nodes (SpecScene)                                        *)
(***************************************************************************)
\* the transforms the visitor is called with in a traversal from the node o,
\* one for every item visited, in order
VisitsFrom(o) ==
    [i \in DOMAIN ObjectDo(o, NewTransform(Ident4)) |->
        ObjectDo(o, NewTransform(Ident4))[i][2]]

\* the enabled flags of the subtree of o, in the order of a traversal that
\* ignores the flags
RECURSIVE EnabledFlags(_, _)
RECURSIVE enabledFlagsOf(_, _, _)
EnabledFlags(N, o) == <<N[o].enabled>> \o enabledFlagsOf(N, N[o].objects, 1)

enabledFlagsOf(N, objs, i) ==
    IF i > Len(objs) THEN <<>>
    ELSE EnabledFlags(N, objs[i]) \o enabledFlagsOf(N, objs, i + 1)

\* C29: Clone of a Group or an Item keeps the enabled flag of the node and of
\* every descendant, so a traversal of the clone visits the items that
\* correspond to those a traversal of the original visits.
C29_CloneKeepsEnabled ==
    [][\A obj, c \in NodeIds :
          (CallClone(obj) /\ c = FreeNode(nodes)) =>
              /\ EnabledFlags(nodes', c) = EnabledFlags(nodes, obj)
              /\ VisitsFrom(c)' = VisitsFrom(obj)]_vars

(***************************************************************************)
(* Materials read from MTL text.  materials holds the package variables    *)
(* mtlCache and mtlDataCache, the names and the records of the last        *)
(* LoadMtl call, and the result of the last LoadMaterial call.  An mtlData *)
(* keeps the fields the records of the modelled texts set: name, diffuse   *)
(* and model; the texts hold newmtl, Kd and illum records only, so no      *)
(* texture is loaded and toMaterial cannot fail.                           *)
(***************************************************************************)
MaxMtlOps == 4

Upper == "ABCDEFGHIJKLMNOPQRSTUVWXYZ"

Lower == "abcdefghijklmnopqrstuvwxyz"

lowerChar(c) ==
    IF \E i \in 1..Len(Upper) : Char(Upper, i) = c
    THEN Char(Lower, CHOOSE i \in 1..Len(Upper) : Char(Upper, i) = c)
    ELSE c

\* strings.ToLower
RECURSIVE ToLower(_)
ToLower(str) ==
    IF str = "" THEN ""
    ELSE lowerChar(Char(str, 1)) \o ToLower(SubSeq(str, 2, Len(str)))

newMtlData(name) == [name |-> name, diffuse |-> <<F1, F1, F1>>, model |-> 2]

\* mtlData.toMaterial without texture maps: the shader follows the
\* illumination model, the colour is the diffuse colour, and model 0 has no
\* ambient term
toMaterial(m, bumpMap) ==
    [shader  |-> IF m.model \in {0, 1} THEN "diffuse" ELSE "reflective",
     color   |-> m.diffuse,
     ambient |-> m.model # 0]

\* the material a constructor of a built in material returns
Builtin(name) == [shader |-> name, color |-> <<F1, F1, F1>>, ambient |-> TRUE]

\* saveMaterialData on the map mtlDataCache
saveMaterialData(D, m) == MapPut(D, ToLower(m.name), m)

\* fmt.Sprintf("%s:%v", strings.ToLower(name), bumpMap)
cname(name, bumpMap) == ToLower(name) \o ":" \o (IF bumpMap THEN "true" ELSE "false")

\* LoadMaterial with the caches of c: the caches after the call, the
\* material (empty for nil) and whether an error is returned
LoadMaterialIn(c, name, bumpMap) ==
    IF cname(name, bumpMap) \in DOMAIN c.mtlCache
    THEN [caches |-> c, mtl |-> <<c.mtlCache[cname(name, bumpMap)]>>, err |-> FALSE]
    ELSE IF name \in DOMAIN c.mtlDataCache
    THEN [caches |-> [c EXCEPT !.mtlCache =
                         MapPut(@, cname(name, bumpMap),
                                toMaterial(c.mtlDataCache[name], bumpMap))],
          mtl |-> <<toMaterial(c.mtlDataCache[name], bumpMap)>>, err |-> FALSE]
    ELSE IF name \in BuiltinMaterials
    THEN [caches |-> c, mtl |-> <<Builtin(name)>>, err |-> FALSE]
    ELSE [caches |-> c, mtl |-> <<>>, err |-> TRUE]

\* the loop of LoadMtl from line i: D is mtlDataCache, m the record being
\* read (empty for nil), names the result so far and recs the records saved
\* for these names.  A record before the first newmtl, or a field that is no
\* number, panics, and the deferred function returns the names with an error.
RECURSIVE mtlLines(_, _, _, _, _, _)
mtlLines(D, m, names, recs, lines, i) ==
    IF i > Len(lines)
    THEN IF m = <<>> THEN [data |-> D, names |-> names, recs |-> recs, err |-> FALSE]
         ELSE [data |-> saveMaterialData(D, m[1]), names |-> Append(names, m[1].name),
               recs |-> Append(recs, m[1]), err |-> FALSE]
    ELSE LET flds == splitSpaces(TrimSpace(lines[i]), 1, "")
             fail == [data |-> D, names |-> names, recs |-> recs, err |-> TRUE]
         IN  CASE TrimSpace(lines[i]) = "" \/ Char(TrimSpace(lines[i]), 1) = "#" ->
                    mtlLines(D, m, names, recs, lines, i + 1)
               [] flds[1] = "newmtl" ->
                    IF Len(flds) < 2 THEN fail
                    ELSE IF m = <<>>
                    THEN mtlLines(D, <<newMtlData(flds[2])>>, names, recs, lines, i + 1)
                    ELSE mtlLines(saveMaterialData(D, m[1]), <<newMtlData(flds[2])>>,
                                  Append(names, m[1].name), Append(recs, m[1]),
                                  lines, i + 1)
               [] flds[1] = "Kd" ->
                    IF m = <<>> \/ Len(flds) < 4 \/ ~parse3fv(SubSeq(flds, 2, 4)).ok
                    THEN fail
                    ELSE mtlLines(D, <<[m[1] EXCEPT !.diffuse =
                                            parse3fv(SubSeq(flds, 2, 4)).val]>>,
                                  names, recs, lines, i + 1)
               [] flds[1] = "illum" ->
                    IF m = <<>> \/ Len(flds) < 2 \/ ~parseint(flds[2]).ok THEN fail
                    ELSE mtlLines(D, <<[m[1] EXCEPT !.model = parseint(flds[2]).val]>>,
                                  names, recs, lines, i + 1)
               [] OTHER -> mtlLines(D, m, names, recs, lines, i + 1)

NewMaterials ==
    [mtlCache |-> EmptyMap, mtlDataCache |-> EmptyMap, names |-> <<>>,
     loaded |-> <<>>, err |-> FALSE,
     last |-> [name |-> "", bumpMap |-> FALSE, mtl |-> <<>>, err |-> FALSE],
     ops |-> 0]

MtlFiles ==
    { <<"newmtl Red", "Kd 1 0 0">>,
      <<"# two materials", "newmtl red", "Kd 0 1 0", "illum 1">>,
      <<"newmtl blue", "Kd 0 0 1", "", "newmtl Shiny", "illum 0">>,
      <<"Kd 1 1 1", "newmtl late">> }

MtlNames == {"Red", "red", "blue", "Shiny", "diffuse", "none"}

MaterialsRunning == materials # <<>> /\ materials.ops < MaxMtlOps

\* names, err := LoadMtl(r) on the text lines
CallLoadMtl(lines) ==
    /\ MaterialsRunning
    /\ \E r \in {mtlLines(materials.mtlDataCache, <<>>, <<>>, <<>>, lines, 1)} :
          materials' = [materials EXCEPT !.mtlDataCache = r.data, !.names = r.names,
                                         !.loaded = r.recs, !.err = r.err,
                                         !.ops = @ + 1]
    /\ UNCHANGED <<nodes, calls, visited, meshes, mgroups, batch, built, meshCache,
                   hist, objData, view, cam, drv>>

\* mtl, err := LoadMaterial(name, bumpMap)
CallLoadMaterial(name, bumpMap) ==
    /\ MaterialsRunning
    /\ \E r \in {LoadMaterialIn(materials, name, bumpMap)} :
          materials' = [r.caches EXCEPT
                           !.last = [name |-> name, bumpMap |-> bumpMap,
                                     mtl |-> r.mtl, err |-> r.err],
                           !.ops = @ + 1]
    /\ UNCHANGED <<nodes, calls, visited, meshes, mgroups, batch, built, meshCache,
                   hist, objData, view, cam, drv>>

InitMtl ==
    /\ nodes = [n \in NodeIds |-> NoNode]
    /\ calls = <<>>
    /\ visited = [root |-> 0, calls |-> <<>>]
    /\ meshes = <<>>
    /\ mgroups = <<>>
    /\ batch = NoBatch
    /\ built = NoBuilt
    /\ meshCache = EmptyMap
    /\ hist = NoHist
    /\ objData = <<>>
    /\ view = <<>>
    /\ cam = <<>>
    /\ drv = <<>>
    /\ materials = NewMaterials

NextMtl ==
    \/ \E lines \in MtlFiles : CallLoadMtl(lines)
    \/ \E name \in MtlNames, bumpMap \in BOOLEAN : CallLoadMaterial(name, bumpMap)

SpecMtl == InitMtl /\ [][NextMtl]_vars

\* C30: every name the last LoadMtl call returned, upper-case letters or
\* not, is resolved by LoadMaterial without error, to the material built from
\* the MTL record of that name.
C30_NamesResolve ==
    \A i \in DOMAIN materials.names : \A bumpMap \in BOOLEAN :
        \A r \in {LoadMaterialIn(materials, materials.names[i], bumpMap)} :
            /\ ~r.err
            /\ r.mtl = <<toMaterial(materials.loaded[i], bumpMap)>>

====
